---------------------------- MODULE Spec2Model ----------------------------
(***************************************************************************)
(* Model of the AI-interviewer backend (backend/app): the session-flow     *)
(* handlers of api/interview.py over the two tables of models/database.py, *)
(* and the question / evaluation pipeline of services/llm.py.              *)
(*                                                                         *)
(* Text is modelled by TLA+ strings, character by character, so that the   *)
(* parsers are computed as the Python code computes them.  A score is the  *)
(* decimal numeral of its float: score, its whole thousandths of a point   *)
(* (7.5 is 7500), and score_rest, the digits after the third; an optional  *)
(* column (NULL / None) is a sequence of length 0 or 1.  Time is an        *)
(* integer count of minutes.                                               *)
(***************************************************************************)
EXTENDS Integers, Sequences, FiniteSets, TLC

VARIABLES sessions, questions, now, resp, ev, rag, inflight

vars == <<sessions, questions, now, resp, ev, rag, inflight>>

(***************************************************************************)
(* Bounds of the model.                                                    *)
(***************************************************************************)
MaxSessions == 1
MaxQuestions == 2
MaxTime == 1
MaxTokens == 4
MaxRequests == 2
MaxWords == 100
MaxKeywords == 6

(***************************************************************************)
(* Optional values.                                                        *)
(***************************************************************************)
None == << >>
Some(v) == <<v>>
IsNone(o) == o = << >>
Val(o) == o[1]

Min(a, b) == IF a < b THEN a ELSE b
Max(a, b) == IF a > b THEN a ELSE b

(***************************************************************************)
(* Python str primitives.                                                  *)
(***************************************************************************)
CharAt(s, i) == SubSeq(s, i, i)

UpperLetters == {"A", "B", "C", "D", "E", "F", "G", "H", "I", "J", "K", "L", "M",
                 "N", "O", "P", "Q", "R", "S", "T", "U", "V", "W", "X", "Y", "Z"}
LowerLetters == {"a", "b", "c", "d", "e", "f", "g", "h", "i", "j", "k", "l", "m",
                 "n", "o", "p", "q", "r", "s", "t", "u", "v", "w", "x", "y", "z"}
Digits == {"0", "1", "2", "3", "4", "5", "6", "7", "8", "9"}
\* the ASCII characters that str.strip and str.split take for whitespace: blank,
\* \t \n \v \f \r and the separators 0x1c to 0x1f
Whitespace == {" ", "\t", "\n", "\r", "\f", "", "", "", "", ""}

IsAlpha(c) == c \in UpperLetters \/ c \in LowerLetters
IsDigit(c) == c \in Digits
IsSpace(c) == c \in Whitespace
\* a character of the regex class \w
IsWordChar(c) == IsAlpha(c) \/ IsDigit(c) \/ c = "_"

DigitVal(c) ==
    CASE c = "0" -> 0 [] c = "1" -> 1 [] c = "2" -> 2 [] c = "3" -> 3
      [] c = "4" -> 4 [] c = "5" -> 5 [] c = "6" -> 6 [] c = "7" -> 7
      [] c = "8" -> 8 [] c = "9" -> 9

LowerChar(c) ==
    CASE c = "A" -> "a" [] c = "B" -> "b" [] c = "C" -> "c" [] c = "D" -> "d"
      [] c = "E" -> "e" [] c = "F" -> "f" [] c = "G" -> "g" [] c = "H" -> "h"
      [] c = "I" -> "i" [] c = "J" -> "j" [] c = "K" -> "k" [] c = "L" -> "l"
      [] c = "M" -> "m" [] c = "N" -> "n" [] c = "O" -> "o" [] c = "P" -> "p"
      [] c = "Q" -> "q" [] c = "R" -> "r" [] c = "S" -> "s" [] c = "T" -> "t"
      [] c = "U" -> "u" [] c = "V" -> "v" [] c = "W" -> "w" [] c = "X" -> "x"
      [] c = "Y" -> "y" [] c = "Z" -> "z" [] OTHER -> c

\* s.lower(), computed by halves
RECURSIVE Lower(_)
Lower(s) ==
    IF Len(s) = 0 THEN ""
    ELSE IF Len(s) = 1 THEN LowerChar(s)
    ELSE LET h == Len(s) \div 2 IN Lower(SubSeq(s, 1, h)) \o Lower(SubSeq(s, h + 1, Len(s)))

StartsWith(s, p) == Len(s) >= Len(p) /\ SubSeq(s, 1, Len(p)) = p

\* p in s
Contains(s, p) == \E i \in 1..(Len(s) - Len(p) + 1) : SubSeq(s, i, i + Len(p) - 1) = p

RECURSIVE LStrip(_)
LStrip(s) == IF s # "" /\ IsSpace(CharAt(s, 1)) THEN LStrip(SubSeq(s, 2, Len(s))) ELSE s

RECURSIVE RStrip(_)
RStrip(s) ==
    IF s # "" /\ IsSpace(CharAt(s, Len(s))) THEN RStrip(SubSeq(s, 1, Len(s) - 1)) ELSE s

\* s.strip()
Strip(s) == RStrip(LStrip(s))

\* s.lstrip(chars); a character outside ASCII is written as its UTF-8 bytes, so
\* an element of chars may be longer than one
RECURSIVE LStripChars(_, _)
LStripChars(s, chars) ==
    IF \E c \in chars : StartsWith(s, c)
    THEN LET c == CHOOSE d \in chars : StartsWith(s, d)
         IN  LStripChars(SubSeq(s, Len(c) + 1, Len(s)), chars)
    ELSE s

\* s.replace(p, ""), p non-empty
RECURSIVE Remove(_, _)
Remove(s, p) ==
    IF s = "" THEN ""
    ELSE IF StartsWith(s, p) THEN Remove(SubSeq(s, Len(p) + 1, Len(s)), p)
    ELSE CharAt(s, 1) \o Remove(SubSeq(s, 2, Len(s)), p)

\* s.split(sep) for a one-character sep: every separator starts a new piece
RECURSIVE SplitOn(_, _)
SplitOn(s, sep) ==
    IF \A i \in 1..Len(s) : CharAt(s, i) # sep THEN <<s>>
    ELSE LET k == CHOOSE i \in 1..Len(s) :
                      CharAt(s, i) = sep /\ \A j \in 1..(i - 1) : CharAt(s, j) # sep
         IN  <<SubSeq(s, 1, k - 1)>> \o SplitOn(SubSeq(s, k + 1, Len(s)), sep)

\* s.split(sep) for a non-empty string sep: the pieces between the occurrences of
\* sep, found from the left
RECURSIVE SplitAt(_, _)
SplitAt(s, sep) ==
    LET starts == {i \in 1..(Len(s) - Len(sep) + 1) : SubSeq(s, i, i + Len(sep) - 1) = sep}
    IN  IF starts = {} THEN <<s>>
        ELSE LET k == CHOOSE i \in starts : \A j \in starts : i <= j
             IN  <<SubSeq(s, 1, k - 1)>> \o SplitAt(SubSeq(s, k + Len(sep), Len(s)), sep)

\* s.split(" "): every single space starts a new piece
SplitAtSpaces(s) == SplitOn(s, " ")

\* s.split(): the maximal runs of non-whitespace characters
RECURSIVE SplitWords(_)
SplitWords(s) ==
    LET t == LStrip(s) IN
    IF t = "" THEN << >>
    ELSE LET ends == {i \in 1..Len(t) : IsSpace(CharAt(t, i))}
             k == IF ends = {} THEN Len(t) + 1
                  ELSE CHOOSE i \in ends : \A j \in ends : i <= j
         IN  <<SubSeq(t, 1, k - 1)>> \o SplitWords(SubSeq(t, k, Len(t)))

\* sep.join(parts)
RECURSIVE Join(_, _)
Join(parts, sep) ==
    IF parts = << >> THEN ""
    ELSE IF Len(parts) = 1 THEN parts[1]
    ELSE parts[1] \o sep \o Join(Tail(parts), sep)

(***************************************************************************)
(* services/llm.py: the static tables.                                     *)
(***************************************************************************)
keywords_map ==
       ("software_engineering" :>
           <<"algorithm", "complexity", "scalability", "design pattern", "OOP",
             "SOLID", "database", "API", "REST", "microservices", "testing",
             "debugging", "optimization", "data structure", "array", "linked list",
             "tree", "graph", "hash", "performance">>)
    @@ ("Software Engineering" :>
           <<"algorithm", "complexity", "scalability", "design pattern", "OOP",
             "SOLID", "database", "API", "REST", "microservices", "testing",
             "debugging", "optimization", "data structure", "array", "linked list",
             "tree", "graph", "hash", "performance">>)
    @@ ("data_science" :>
           <<"statistics", "probability", "regression", "classification", "clustering",
             "model", "feature", "dataset", "correlation", "variance", "bias",
             "validation", "cross-validation", "pandas", "numpy", "matplotlib",
             "sklearn", "analysis", "hypothesis", "p-value">>)
    @@ ("Data Science" :>
           <<"statistics", "probability", "regression", "classification", "clustering",
             "model", "feature", "dataset", "correlation", "variance", "bias",
             "validation", "cross-validation", "pandas", "numpy", "matplotlib",
             "sklearn", "analysis", "hypothesis", "p-value">>)
    @@ ("ai_ml" :>
           <<"neural network", "deep learning", "gradient", "backpropagation",
             "overfitting", "regularization", "CNN", "RNN", "transformer", "attention",
             "training", "inference", "supervised", "unsupervised", "reinforcement",
             "algorithm", "optimization", "loss function">>)
    @@ ("AI/ML" :>
           <<"neural network", "deep learning", "gradient", "backpropagation",
             "overfitting", "regularization", "CNN", "RNN", "transformer", "attention",
             "training", "inference", "supervised", "unsupervised", "reinforcement",
             "algorithm", "optimization", "loss function">>)
    @@ ("hardware_ece" :>
           <<"circuit", "voltage", "current", "resistance", "capacitor", "inductor",
             "transistor", "amplifier", "digital", "analog", "microcontroller", "FPGA",
             "PCB", "signal", "power", "frequency", "impedance", "oscilloscope",
             "multimeter", "semiconductor">>)
    @@ ("Hardware/ECE" :>
           <<"circuit", "voltage", "current", "resistance", "capacitor", "inductor",
             "transistor", "amplifier", "digital", "analog", "microcontroller", "FPGA",
             "PCB", "signal", "power", "frequency", "impedance", "oscilloscope",
             "multimeter", "semiconductor">>)
    @@ ("robotics" :>
           <<"sensor", "actuator", "control", "PID", "kinematics", "dynamics",
             "path planning", "localization", "mapping", "SLAM", "computer vision",
             "feedback", "servo", "motor", "encoder", "IMU", "lidar", "camera",
             "autonomous", "navigation">>)
    @@ ("Robotics" :>
           <<"sensor", "actuator", "control", "PID", "kinematics", "dynamics",
             "path planning", "localization", "mapping", "SLAM", "computer vision",
             "feedback", "servo", "motor", "encoder", "IMU", "lidar", "camera",
             "autonomous", "navigation">>)

suggestions_map ==
       ("software_engineering" :>
           <<"Discuss time and space complexity when relevant",
             "Consider scalability and maintainability",
             "Include specific design patterns or principles">>)
    @@ ("Software Engineering" :>
           <<"Discuss time and space complexity when relevant",
             "Consider scalability and maintainability",
             "Include specific design patterns or principles">>)
    @@ ("data_science" :>
           <<"Mention relevant statistical concepts",
             "Discuss data preprocessing and validation",
             "Consider model evaluation metrics">>)
    @@ ("Data Science" :>
           <<"Mention relevant statistical concepts",
             "Discuss data preprocessing and validation",
             "Consider model evaluation metrics">>)
    @@ ("ai_ml" :>
           <<"Explain the mathematical intuition behind algorithms",
             "Discuss model architecture choices",
             "Consider training and inference optimization">>)
    @@ ("AI/ML" :>
           <<"Explain the mathematical intuition behind algorithms",
             "Discuss model architecture choices",
             "Consider training and inference optimization">>)
    @@ ("hardware_ece" :>
           <<"Include circuit analysis or component specifications",
             "Discuss power consumption and efficiency",
             "Consider real-world constraints and tolerances">>)
    @@ ("Hardware/ECE" :>
           <<"Include circuit analysis or component specifications",
             "Discuss power consumption and efficiency",
             "Consider real-world constraints and tolerances">>)
    @@ ("robotics" :>
           <<"Discuss sensor fusion and perception", "Consider real-time constraints",
             "Include control theory concepts when relevant">>)
    @@ ("Robotics" :>
           <<"Discuss sensor fusion and perception", "Consider real-time constraints",
             "Include control theory concepts when relevant">>)

fallback_questions ==
       ("software_engineering" :> [easy |-> "What is the difference between a class and an object in object-oriented programming?",
           medium |-> "Explain the SOLID principles and provide an example of each.",
           hard |-> "Design a scalable microservices architecture for an e-commerce platform."])
    @@ ("Software Engineering" :> [easy |-> "What is the difference between a class and an object in object-oriented programming?",
           medium |-> "Explain the SOLID principles and provide an example of each.",
           hard |-> "Design a scalable microservices architecture for an e-commerce platform."])
    @@ ("data_science" :> [easy |-> "What is the difference between supervised and unsupervised learning?",
           medium |-> "Explain bias-variance tradeoff and how to handle it.",
           hard |-> "Design an A/B testing framework for a recommendation system."])
    @@ ("Data Science" :> [easy |-> "What is the difference between supervised and unsupervised learning?",
           medium |-> "Explain bias-variance tradeoff and how to handle it.",
           hard |-> "Design an A/B testing framework for a recommendation system."])
    @@ ("ai_ml" :> [easy |-> "What is the difference between artificial intelligence and machine learning?",
           medium |-> "Explain the concept of backpropagation in neural networks.",
           hard |-> "How would you implement a transformer model from scratch?"])
    @@ ("AI/ML" :> [easy |-> "What is the difference between artificial intelligence and machine learning?",
           medium |-> "Explain the concept of backpropagation in neural networks.",
           hard |-> "How would you implement a transformer model from scratch?"])
    @@ ("hardware_ece" :> [easy |-> "Explain Ohm's law and its applications.",
           medium |-> "What is the difference between analog and digital signals?",
           hard |-> "Design a low-power microcontroller system for IoT applications."])
    @@ ("Hardware/ECE" :> [easy |-> "Explain Ohm's law and its applications.",
           medium |-> "What is the difference between analog and digital signals?",
           hard |-> "Design a low-power microcontroller system for IoT applications."])
    @@ ("robotics" :> [easy |-> "What are the main components of a robotic system?",
           medium |-> "Explain PID control and its use in robotics.",
           hard |-> "How would you implement SLAM for an autonomous robot?"])
    @@ ("Robotics" :> [easy |-> "What are the main components of a robotic system?",
           medium |-> "Explain PID control and its use in robotics.",
           hard |-> "How would you implement SLAM for an autonomous robot?"])

generic_suggestions ==
    <<"Provide more specific technical details",
      "Include examples from real-world applications",
      "Structure your answer clearly">>

generic_question ==
    "Tell me about your experience and approach to solving problems in this field."

default_concepts == <<"Domain knowledge", "Problem solving">>

\* keywords_map.get(domain, [])
GetDomainKeywords(domain) ==
    IF domain \in DOMAIN keywords_map THEN keywords_map[domain] ELSE << >>

\* a lookup without the generic bank
GetDomainSpecificSuggestionsNoGeneric(domain) ==
    IF domain \in DOMAIN suggestions_map THEN suggestions_map[domain] ELSE << >>

\* suggestions_map.get(domain, [the generic three])
GetDomainSpecificSuggestions(domain) ==
    IF domain \in DOMAIN suggestions_map THEN suggestions_map[domain]
    ELSE generic_suggestions

\* fallback_questions.get(domain, {}).get(difficulty), else the generic prompt
GetFallbackQuestionNoLabel(domain, difficulty) ==
    LET slugs == {"software_engineering", "data_science", "ai_ml", "hardware_ece",
                  "robotics"}
        text == IF domain \in slugs /\ difficulty \in DOMAIN fallback_questions[domain]
                THEN fallback_questions[domain][difficulty]
                ELSE generic_question
    IN  [question_text |-> text, question_type |-> "technical",
         expected_concepts |-> default_concepts]

GetFallbackQuestion(domain, difficulty) ==
    LET questions_for_domain ==
            IF domain \in DOMAIN fallback_questions THEN Some(fallback_questions[domain])
            ELSE None
        question ==
            IF ~IsNone(questions_for_domain)
               /\ difficulty \in DOMAIN Val(questions_for_domain)
            THEN Val(questions_for_domain)[difficulty]
            ELSE ""
        text == IF question = "" THEN generic_question ELSE question
    IN  [question_text |-> text, question_type |-> "technical",
         expected_concepts |-> default_concepts]

(***************************************************************************)
(* services/llm.py: the generation call.  An outcome of the HTTP call is   *)
(* [kind, text]: "connect_error" (httpx.ConnectError), "error" (any other  *)
(* exception: timeout, HTTP status, undecodable body), "text" (the body's  *)
(* "response" string, "" when the key is missing) or "nonstring" (the body *)
(* carries a "response" that is not a string).  The value returned is      *)
(* [isstr, text].                                                          *)
(***************************************************************************)
OllamaUnavailable == "Ollama not available"
OllamaError == "Error generating response"

CallOllama(outcome) ==
    CASE outcome.kind = "connect_error" -> [isstr |-> TRUE, text |-> OllamaUnavailable]
      [] outcome.kind = "error" -> [isstr |-> TRUE, text |-> OllamaError]
      [] outcome.kind = "text" -> [isstr |-> TRUE, text |-> outcome.text]
      [] outcome.kind = "nonstring" -> [isstr |-> FALSE, text |-> ""]

(***************************************************************************)
(* services/llm.py: question parsing and generation.                       *)
(***************************************************************************)
RECURSIVE StripEach(_)
StripEach(parts) ==
    IF parts = << >> THEN << >> ELSE <<Strip(Head(parts))>> \o StripEach(Tail(parts))

\* the loop over the lines of the response; a later line overrides an earlier one
RECURSIVE ScanQuestionLines(_, _)
ScanQuestionLines(lines, result) ==
    IF lines = << >> THEN result
    ELSE LET line == Head(lines)
             next ==
                 IF StartsWith(line, "Question:")
                 THEN [result EXCEPT
                          !.question_text = Some(Strip(Remove(line, "Question:")))]
                 ELSE IF StartsWith(line, "Type:")
                 THEN [result EXCEPT !.question_type = Strip(Remove(line, "Type:"))]
                 ELSE IF StartsWith(line, "Expected_concepts:")
                 THEN [result EXCEPT
                          !.expected_concepts =
                              StripEach(SplitOn(Strip(Remove(line, "Expected_concepts:")),
                                                ","))]
                 ELSE result
         IN  ScanQuestionLines(Tail(lines), next)

RECURSIVE RemovePrefixes(_, _)
RemovePrefixes(clean, prefixes) ==
    IF prefixes = << >> THEN clean
    ELSE LET p == Head(prefixes)
             c == IF StartsWith(clean, p) THEN Strip(SubSeq(clean, Len(p) + 1, Len(clean)))
                  ELSE clean
         IN  RemovePrefixes(c, Tail(prefixes))

\* "not x" for an optional string: None or ""
Falsy(o) == IsNone(o) \/ Val(o) = ""

\* _parse_question_response: None, or Some(result)
ParseQuestionResponse(response) ==
    IF response = OllamaUnavailable \/ response = OllamaError THEN None
    ELSE LET scanned ==
                 ScanQuestionLines(SplitOn(response, "\n"),
                                   [question_text |-> None, question_type |-> "technical",
                                    expected_concepts |-> default_concepts])
             clean_response ==
                 RemovePrefixes(Strip(response),
                                <<"Question:", "Q:", "Interview Question:",
                                  "Technical Question:">>)
         IN  IF Falsy(scanned.question_text) /\ Strip(response) # ""
                /\ Len(clean_response) > 10
             THEN Some([scanned EXCEPT !.question_text = Some(clean_response)])
             ELSE Some(scanned)

GenerateQuestionNoFallback(domain, difficulty, outcome) ==
    LET response == CallOllama(outcome)
        parsed == IF response.isstr THEN ParseQuestionResponse(response.text) ELSE None
    IN  IF IsNone(parsed) \/ Falsy(Val(parsed).question_text)
        THEN [question_text |-> "", question_type |-> "technical",
              expected_concepts |-> default_concepts]
        ELSE [question_text |-> Val(Val(parsed).question_text),
              question_type |-> Val(parsed).question_type,
              expected_concepts |-> Val(parsed).expected_concepts]

\* generate_question: the fallback is used when the parser raises (a response
\* that is not a string has no split), returns None or finds no question text
GenerateQuestion(domain, difficulty, outcome) ==
    LET response == CallOllama(outcome) IN
    IF ~response.isstr THEN GetFallbackQuestion(domain, difficulty)
    ELSE LET parsed_response == ParseQuestionResponse(response.text) IN
         IF IsNone(parsed_response) \/ Falsy(Val(parsed_response).question_text)
         THEN GetFallbackQuestion(domain, difficulty)
         ELSE [question_text |-> Val(Val(parsed_response).question_text),
               question_type |-> Val(parsed_response).question_type,
               expected_concepts |-> Val(parsed_response).expected_concepts]

(***************************************************************************)
(* services/llm.py: evaluation parsing.                                    *)
(***************************************************************************)
RECURSIVE ParseDigits(_, _)
ParseDigits(s, acc) ==
    IF s = "" THEN acc ELSE ParseDigits(SubSeq(s, 2, Len(s)), 10 * acc + DigitVal(CharAt(s, 1)))

\* the end of the run of digits that starts at i
RECURSIVE DigitRunEnd(_, _)
DigitRunEnd(s, i) ==
    IF i < Len(s) /\ IsDigit(CharAt(s, i + 1)) THEN DigitRunEnd(s, i + 1) ELSE i

\* the digits without the zeros at their end
RECURSIVE RStripZeros(_)
RStripZeros(digits) ==
    IF digits # "" /\ CharAt(digits, Len(digits)) = "0"
    THEN RStripZeros(SubSeq(digits, 1, Len(digits) - 1))
    ELSE digits

\* the value of the digits of a fraction: its whole thousandths and the digits
\* after the third
Fraction(digits) ==
    [score |-> ParseDigits(SubSeq(digits \o "000", 1, 3), 0),
     score_rest |-> RStripZeros(SubSeq(digits, 4, Len(digits)))]

\* float(re.search(r'(\d+(?:\.\d+)?)', text).group(1)), None without a match.  Two
\* numerals of up to 15 significant digits are the same float exactly when they
\* are the same decimal, which is how floats are compared here.
FirstNumber(text) ==
    LET starts == {i \in 1..Len(text) : IsDigit(CharAt(text, i))} IN
    IF starts = {} THEN None
    ELSE LET i == CHOOSE k \in starts : \A l \in starts : k <= l
             j == DigitRunEnd(text, i)
             whole == ParseDigits(SubSeq(text, i, j), 0)
             hasFraction == j + 2 <= Len(text) /\ CharAt(text, j + 1) = "."
                            /\ IsDigit(CharAt(text, j + 2))
         IN  IF hasFraction
             THEN LET fraction == Fraction(SubSeq(text, j + 2, DigitRunEnd(text, j + 2)))
                  IN  Some([score |-> 1000 * whole + fraction.score,
                            score_rest |-> fraction.score_rest])
             ELSE Some([score |-> 1000 * whole, score_rest |-> ""])

FieldPrefixes ==
    <<"Score:", "Relevance_Check:", "Content_Quality:", "Missing_Elements:",
      "Improvement_Suggestions:">>

\* the content of a field line: line.replace(prefix, "").strip()
FieldContent(line, prefix) == Strip(Remove(line, prefix))

\* the bullet U+2022, as its three UTF-8 bytes
Bullet == "â¢"

\* the characters of line.lstrip("- *\u20220123456789.)")
BulletChars ==
    {"-", " ", "*", Bullet, "0", "1", "2", "3", "4", "5", "6", "7", "8", "9", ".", ")"}

IsListItem(line) ==
    \/ StartsWith(line, "- ")
    \/ StartsWith(line, "* ")
    \/ StartsWith(line, Bullet \o " ")
    \/ (Len(line) > 2 /\ IsDigit(CharAt(line, 1)) /\ CharAt(line, 2) \in {".", ")"})

\* one turn of the loop over the lines of the response
EvalLineStep(acc, rawline) ==
    LET line == Strip(rawline) IN
    IF line = "" THEN acc
    ELSE IF StartsWith(line, "Score:")
    THEN LET score_match == FirstNumber(FieldContent(line, "Score:")) IN
         [acc EXCEPT !.current_section = "score",
                     !.score = IF IsNone(score_match) THEN 0 ELSE Val(score_match).score,
                     !.score_rest =
                         IF IsNone(score_match) THEN "" ELSE Val(score_match).score_rest]
    ELSE IF StartsWith(line, "Relevance_Check:")
    THEN [acc EXCEPT !.current_section = "relevance",
                     !.feedback_parts =
                         Append(@, "Relevance: " \o FieldContent(line, "Relevance_Check:"))]
    ELSE IF StartsWith(line, "Content_Quality:")
    THEN [acc EXCEPT !.current_section = "content",
                     !.feedback_parts =
                         Append(@, "Content Quality: "
                                   \o FieldContent(line, "Content_Quality:"))]
    ELSE IF StartsWith(line, "Missing_Elements:")
    THEN [acc EXCEPT !.current_section = "missing",
                     !.feedback_parts =
                         Append(@, "Missing Elements: "
                                   \o FieldContent(line, "Missing_Elements:"))]
    ELSE IF StartsWith(line, "Improvement_Suggestions:")
    THEN LET content == FieldContent(line, "Improvement_Suggestions:") IN
         [acc EXCEPT !.current_section = "suggestions",
                     !.suggestions = IF content # "" THEN Append(@, content) ELSE @]
    ELSE IF acc.current_section \in {"relevance", "content", "missing"}
    THEN IF acc.feedback_parts # << >>
         THEN [acc EXCEPT !.feedback_parts[Len(acc.feedback_parts)] = @ \o " " \o line]
         ELSE acc
    ELSE IF acc.current_section = "suggestions"
    THEN IF IsListItem(line)
         THEN [acc EXCEPT !.suggestions = Append(@, Strip(LStripChars(line, BulletChars)))]
         ELSE [acc EXCEPT !.suggestions = Append(@, line)]
    ELSE acc

RECURSIVE ScanEvalLines(_, _)
ScanEvalLines(lines, acc) ==
    IF lines = << >> THEN acc ELSE ScanEvalLines(Tail(lines), EvalLineStep(acc, Head(lines)))

\* len(re.findall(r'\b[a-zA-Z]{3,}\b', answer)): the maximal runs of three or
\* more letters that have no word character (\w) on either side
LetterRunEnd(s, i) ==
    CHOOSE j \in i..Len(s) :
        /\ \A k \in i..j : IsAlpha(CharAt(s, k))
        /\ (j = Len(s) \/ ~IsAlpha(CharAt(s, j + 1)))

CountRealWords(answer) ==
    Cardinality({i \in 1..Len(answer) :
        /\ IsAlpha(CharAt(answer, i))
        /\ (i = 1 \/ ~IsWordChar(CharAt(answer, i - 1)))
        /\ LET j == LetterRunEnd(answer, i) IN
           /\ j - i + 1 >= 3
           /\ (j = Len(answer) \/ ~IsWordChar(CharAt(answer, j + 1)))})

\* word_ratio < 0.3 or len(answer.strip()) < 5, with
\* word_ratio = len(words) / max(1, len(answer.split()))
LooksLikeGibberish(answer) ==
    \/ 10 * CountRealWords(answer) < 3 * Max(1, Len(SplitWords(answer)))
    \/ Len(Strip(answer)) < 5

GibberishFeedback ==
    "Your response appears to be gibberish or random characters. Please provide a coherent answer that addresses the technical question asked."

GibberishSuggestions ==
    <<"Read the question carefully and ensure you understand what is being asked",
      "Provide a structured response with clear explanations",
      "Use proper technical terminology relevant to the domain",
      "Include specific examples or use cases where appropriate">>

\* min(9, max(4, n / 8)) in thousandths
\* the length score without its floor of 4
LengthScoreNoFloor(n) == Min(9000, 125 * n)

LengthScore(n) == Min(9000, Max(4000, 125 * n))

\* the length-based result for an answer of n words
LengthHeuristic(n, domain) ==
    IF n < 15
    THEN [score |-> LengthScore(n), score_rest |-> "",
          feedback |-> "Your answer demonstrates understanding but could benefit from more detailed explanations and specific examples.",
          suggestions |-> <<"Provide more detailed explanations of key concepts",
                            "Include specific examples or use cases",
                            "Discuss relevant technical approaches or methodologies">>]
    ELSE IF n > 100
    THEN [score |-> LengthScore(n), score_rest |-> "",
          feedback |-> "You provided a very comprehensive answer with excellent detail. Your thorough approach shows strong understanding.",
          suggestions |-> <<"Consider organizing complex responses with clear structure",
                            "Focus on the most critical aspects first",
                            "Practice concise summaries of key points">>]
    ELSE [score |-> LengthScore(n), score_rest |-> "",
          feedback |-> "Solid answer that demonstrates good understanding. You covered the important concepts well.",
          suggestions |-> <<"Include more technical terminology specific to " \o domain,
                            "Provide concrete examples to reinforce your points",
                            "Consider discussing trade-offs or alternative approaches">>]

\* the count of the keywords found in the answer as it is spelled
KeywordMatchesCaseSensitive(answer, domain) ==
    LET kws == GetDomainKeywords(domain)
    IN  Cardinality({i \in 1..Len(kws) : Contains(answer, kws[i])})

\* sum(1 for keyword in domain_keywords if keyword.lower() in answer.lower())
KeywordMatches(answer, domain) ==
    LET kws == GetDomainKeywords(domain)
        low == Lower(answer)
    IN  Cardinality({i \in 1..Len(kws) : Contains(low, Lower(kws[i]))})

\* _get_fallback_evaluation; the question, which _get_fallback_evaluation and
\* _parse_evaluation_response receive and never read, is not a parameter here
GetFallbackEvaluation(answer, domain) ==
    LET answer_length == Len(SplitWords(answer))
        band ==
            IF answer_length < 5
            THEN [score |-> 2000,
                  feedback |-> "Your answer is too brief. Technical interviews require detailed explanations with specific examples."]
            ELSE IF answer_length < 15
            THEN [score |-> 4000,
                  feedback |-> "Your answer covers some basics but needs more detail. Try to explain the reasoning behind your approach."]
            ELSE IF answer_length < 40
            THEN [score |-> 6500,
                  feedback |-> "Good answer with reasonable detail. Consider adding specific examples or discussing alternative approaches."]
            ELSE IF answer_length < 80
            THEN [score |-> 7500,
                  feedback |-> "Well-structured answer with good detail. You demonstrated solid understanding of the concepts."]
            ELSE [score |-> 8000,
                  feedback |-> "Comprehensive answer with excellent detail. You showed deep understanding and considered multiple aspects."]
        keyword_matches == KeywordMatches(answer, domain)
        keyword_boost == Min(1500, 300 * keyword_matches)
    IN  IF keyword_matches > 0
        THEN [score |-> Min(9500, band.score + keyword_boost), score_rest |-> "",
              feedback |-> band.feedback \o " Great use of " \o ToString(keyword_matches)
                           \o " relevant technical term"
                           \o (IF keyword_matches > 1 THEN "s" ELSE "") \o ".",
              suggestions |-> GetDomainSpecificSuggestions(domain)]
        ELSE [score |-> band.score, score_rest |-> "", feedback |-> band.feedback,
              suggestions |-> GetDomainSpecificSuggestions(domain)]

\* _parse_evaluation_response
ParseEvaluationResponse(response, answer, domain) ==
    IF response = OllamaUnavailable \/ response = OllamaError
    THEN GetFallbackEvaluation(answer, domain)
    ELSE LET acc == ScanEvalLines(SplitOn(response, "\n"),
                                  [score |-> 0, score_rest |-> "", feedback_parts |-> << >>,
                                   suggestions |-> << >>, current_section |-> ""])
             feedback == Join(acc.feedback_parts, "\n\n")
         IN  IF feedback = "" /\ acc.score = 0 /\ acc.score_rest = ""
             THEN IF LooksLikeGibberish(answer)
                  THEN [score |-> 1000, score_rest |-> "", feedback |-> GibberishFeedback,
                        suggestions |-> GibberishSuggestions]
                  ELSE LengthHeuristic(Len(SplitWords(answer)), domain)
             ELSE [score |-> acc.score, score_rest |-> acc.score_rest,
                   feedback |-> feedback,
                   suggestions |-> IF acc.suggestions = << >>
                                   THEN GetDomainSpecificSuggestions(domain)
                                   ELSE acc.suggestions]

\* evaluate_answer: a response that is not a string makes the parser raise, and
\* the handler of line 39 returns the fallback evaluation
EvaluateAnswer(answer, domain, outcome) ==
    LET response == CallOllama(outcome) IN
    IF ~response.isstr THEN GetFallbackEvaluation(answer, domain)
    ELSE ParseEvaluationResponse(response.text, answer, domain)

(***************************************************************************)
(* services/rag.py: the file-based knowledge base.  The topics.md of a     *)
(* domain is an input; knowledge_base holds its sections.                  *)
(***************************************************************************)
SectionOf(domain, current_heading, current_section) ==
    [section |-> current_heading,
     content |-> "Domain: " \o domain \o "\nSection: " \o current_heading \o "\n"
                 \o Strip(current_section)]

\* one turn of the loop of _split_markdown_content
SplitLineStep(acc, line, domain) ==
    IF StartsWith(line, "## ")
    THEN [sections |-> IF Strip(acc.current_section) # ""
                       THEN Append(acc.sections,
                                   SectionOf(domain, acc.current_heading,
                                             acc.current_section))
                       ELSE acc.sections,
          current_heading |-> Strip(SubSeq(line, 4, Len(line))),
          current_section |-> line \o "\n"]
    ELSE [acc EXCEPT !.current_section = @ \o line \o "\n"]

RECURSIVE SplitLines(_, _, _)
SplitLines(lines, acc, domain) ==
    IF lines = << >> THEN acc
    ELSE SplitLines(Tail(lines), SplitLineStep(acc, Head(lines), domain), domain)

\* _split_markdown_content
SplitMarkdownContent(content, domain) ==
    LET done == SplitLines(SplitOn(content, "\n"),
                           [sections |-> << >>, current_heading |-> "",
                            current_section |-> ""], domain)
    IN  IF Strip(done.current_section) # ""
        THEN Append(done.sections,
                    SectionOf(domain, done.current_heading, done.current_section))
        ELSE done.sections

\* sum(1 for word in query_words if word in content_lower)
RECURSIVE OverlapScore(_, _)
OverlapScore(query_words, content_lower) ==
    IF query_words = << >> THEN 0
    ELSE (IF Contains(content_lower, Head(query_words)) THEN 1 ELSE 0)
         + OverlapScore(Tail(query_words), content_lower)

\* the (score, content) pairs of the sections with a positive score
RECURSIVE ScoredSections(_, _)
ScoredSections(sections, query_words) ==
    IF sections = << >> THEN << >>
    ELSE LET score == OverlapScore(query_words, Lower(Head(sections).content))
         IN  (IF score > 0 THEN <<[score |-> score, content |-> Head(sections).content]>>
              ELSE << >>)
             \o ScoredSections(Tail(sections), query_words)

\* the list left as it was scored
Unsorted(scored) == scored

\* list.sort(key=score, reverse=True): stable, equal scores keep their order
RECURSIVE SortByScore(_)
SortByScore(scored) ==
    IF scored = << >> THEN << >>
    ELSE LET best == CHOOSE i \in 1..Len(scored) :
                         /\ \A j \in 1..Len(scored) : scored[j].score <= scored[i].score
                         /\ \A j \in 1..(i - 1) : scored[j].score < scored[i].score
         IN  <<scored[best]>>
             \o SortByScore(SubSeq(scored, 1, best - 1)
                            \o SubSeq(scored, best + 1, Len(scored)))

\* seq[:n] for n >= 0
Take(seq, n) == SubSeq(seq, 1, Min(n, Len(seq)))

\* self.data_dir = Path("app/data"), as the components of the path; the path is
\* relative, so it is read from the working directory of the service
DataDir == <<"app", "data">>

\* A file system fs has the absolute path of the working directory (cwd), the
\* absolute paths of its directories (dirs) and the text of its files by absolute
\* path (files); a path is the sequence of its components, the root is << >>.
IsDir(fs, path) == path = << >> \/ path \in fs.dirs

\* the directory that the components parts name from the directory stack, as the
\* file system walks them: an empty component and "." stay, ".." leaves a
\* directory that exists (the root for the root), a name enters it; None when
\* ".." is asked of something that is no directory
RECURSIVE ResolvePath(_, _, _)
ResolvePath(fs, stack, parts) ==
    IF parts = << >> THEN Some(stack)
    ELSE IF Head(parts) \in {"", "."} THEN ResolvePath(fs, stack, Tail(parts))
    ELSE IF Head(parts) = ".."
    THEN IF IsDir(fs, stack)
         THEN ResolvePath(fs, SubSeq(stack, 1, Len(stack) - 1), Tail(parts))
         ELSE None
    ELSE ResolvePath(fs, Append(stack, Head(parts)), Tail(parts))

\* the text of self.data_dir / domain / "topics.md", None when topics_file.exists()
\* is false; an absolute domain replaces data_dir
TopicsFile(fs, domain) ==
    LET dir == ResolvePath(fs, IF StartsWith(domain, "/") THEN << >>
                               ELSE fs.cwd \o DataDir,
                           SplitOn(domain, "/"))
    IN  IF /\ ~IsNone(dir)
           /\ IsDir(fs, Val(dir))
           /\ Append(Val(dir), "topics.md") \in DOMAIN fs.files
        THEN Some(fs.files[Append(Val(dir), "topics.md")])
        ELSE None

\* _fallback_context; fs is the file system when the request is served
FallbackContext(fs, domain) ==
    LET topics_file == TopicsFile(fs, domain) IN
    IF ~IsNone(topics_file)
    THEN LET sections == Take(SplitAt(Val(topics_file), "## "), 3)
         IN  [i \in 1..(Len(sections) - 1) |-> "## " \o sections[i + 1]]
    ELSE <<"General " \o domain \o " interview topics">>

\* get_relevant_context; knowledge_base maps the loaded domains to their sections
GetRelevantContext(knowledge_base, fs, query, domain, n_results) ==
    IF domain \in DOMAIN knowledge_base
    THEN LET sections == knowledge_base[domain] IN
         IF Contains(Lower(query), "topics")
         THEN [i \in 1..Len(sections) |-> sections[i].section]
         ELSE LET scored_sections ==
                      SortByScore(ScoredSections(sections, SplitWords(Lower(query))))
              IN  [i \in 1..Min(n_results, Len(scored_sections)) |->
                      Take(scored_sections, n_results)[i].content]
    ELSE FallbackContext(fs, domain)

\* query = f"{domain} {difficulty} interview question topics"
QuestionQuery(domain, difficulty) ==
    domain \o " " \o difficulty \o " interview question topics"

(***************************************************************************)
(* The inputs of the requests.                                             *)
(***************************************************************************)
\* an outcome of the generation call: the text of the response, or the way the
\* call failed
Text(t) == [kind |-> "text", text |-> t]
Failure(k) == [kind |-> k, text |-> ""]

\* duration_minutes is any int (InterviewSessionCreate validates nothing): with 0
\* the deadline is created_at itself and the session expires one minute later
Durations == {0, -1100000000}

Contexts ==
    {None, Some("  "), Some("Answered question 1"),
     Some("Answered question 1. Moving to next question")}

AnswerTexts == {"the model has low bias"}

\* what speech_to_text hands to the audio route of Spec: a failure string that
\* the handler knows, a short text and a text long enough to be evaluated
Transcriptions ==
    {Some("Speech recognition was cancelled. Please try again."),
     Some("um yes"), Some("the model has low bias")}

\* services/speech.py: the strings speech_to_text returns when it recognised
\* nothing
SpeechFailures ==
    {"Speech recognition not available. Please type your answer.",
     "No speech detected. Please speak clearly and try again.",
     "No speech detected. Please start speaking after clicking record.",
     "Could not understand the audio. Please speak more clearly.",
     "No speech detected. Please ensure your microphone is working and try again.",
     "No speech detected in the recording. Please speak clearly into the microphone.",
     "Speech recognition error. Please try again or type your answer.",
     "Speech recognition was cancelled. Please try again.",
     "Speech recognition failed. Please try again or type your answer.",
     "Speech recognition error. Please type your answer instead."}

\* what speech_to_text can return: a failure string or the recognised text, which
\* is stripped and not empty
SpeechResults ==
    {Some(f) : f \in SpeechFailures}
        \cup {Some("um yes"), Some("low bias"), Some("the model has low bias")}

\* the outcome of the generation call while question qid is evaluated: the backend
\* fails for the odd ids and scores the even ones, so that the scores of a session
\* differ while each question has one
FlowEvaluation(qid) ==
    IF qid % 2 = 1 THEN Failure("error")
    ELSE Text("Score: 7.125\nRelevance_Check: Pass")

FlowEvaluations == {FlowEvaluation(1), FlowEvaluation(2)}

\* the outcomes of the generation call for a question
QuestionOutcomes ==
    {Failure("connect_error"), Failure("error"), Failure("nonstring"), Text(""),
     Text("Hi"), Text("Question:"), Text("Question:  \nType: coding"),
     Text("Question: What is a decision tree?\nType: coding"),
     Text("How do you detect overfitting?")}

\* the outcomes of the generation call for an evaluation
EvaluationOutcomes ==
    {Failure("connect_error"), Failure("error"), Failure("nonstring"), Text(""),
     Text("Great answer overall."), Text("Score: 0"), Text("Score: n/a"),
     Text("Score: 1"), Text("Score: 85"), Text("Score: 100\nRelevance_Check: Pass"),
     Text("Score: 7/10\nRelevance_Check: Pass\nImprovement_Suggestions:\n- add examples"),
     Text("Score: 0\nRelevance_Check: Fail - the answer is gibberish"),
     Text("Score: 1.0\nContent_Quality: weak"),
     Text("Relevance_Check: Pass\n  it is on topic\nMissing_Elements:"),
     Text("Improvement_Suggestions: study\n2. practice more"),
     Text("Score: 10\nRelevance_Check: Pass - excellent"),
     Text("Score: 0.0004"), Text("Score: 7.1256\nRelevance_Check: Pass")}

Domains == {"Data Science", "data_science", "Robotics", "Cooking"}
Difficulties == {"easy", "medium", "hard", "expert"}

\* answers of up to MaxTokens tokens, and the answers of the spec's scenarios
AnswerTokens == {"abc", "ab", "12", "x-abc"}

RECURSIVE TokenAnswers(_)
TokenAnswers(n) ==
    IF n = 0 THEN {""}
    ELSE LET shorter == TokenAnswers(n - 1) IN
         shorter \cup {IF a = "" THEN t ELSE a \o " " \o t :
                           a \in shorter, t \in AnswerTokens}

\* answers of 48 and of 80 words
LongAnswer48 ==
    "the model has low bias and variance the model has low bias and variance the model has low bias and variance the model has low bias and variance the model has low bias and variance the model has low bias and variance the model has low bias and"
LongAnswer80 ==
    "model model model model model model model model model model model model model model model model model model model model model model model model model model model model model model model model model model model model model model model model model model model model model model model model model model model model model model model model model model model model model model model model model model model model model model model model model model model model model model model model"

EvalAnswers ==
    TokenAnswers(MaxTokens)
        \cup {"asdkj qpx 991", "   ", "abc      ", "abc1 _abc 2abc abcd",
              "I would use the model to check bias and variance",
              LongAnswer48, LongAnswer80}

NoResult == [score |-> 0, score_rest |-> "", feedback |-> "", suggestions |-> << >>]

IdleEv ==
    [phase |-> "idle", outcome |-> Text(""), answer |-> "", domain |-> "",
     result |-> NoResult]

IdleRag ==
    [phase |-> "idle", content |-> "", written |-> None, query |-> "", domain |-> "",
     n_results |-> 0, result |-> << >>]

\* generate_question and evaluate_answer on the inputs above, computed once
GeneratedQuestion ==
    << >> @@ [i \in Domains \X Difficulties \X QuestionOutcomes |->
                 GenerateQuestion(i[1], i[2], i[3])]

SubmittedTexts ==
    AnswerTexts \cup {"asdkj qpx 991"} \cup {Val(t) : t \in Transcriptions}

Evaluation ==
    << >> @@ [i \in (SubmittedTexts \X Domains \X (EvaluationOutcomes \cup FlowEvaluations))
                     \cup ({Val(t) : t \in SpeechResults} \X {"Data Science"}
                               \X FlowEvaluations)
                 |-> EvaluateAnswer(i[1], i[2], i[3])]

(***************************************************************************)
(* models/database.py: the two tables.  A row's id is its index in the     *)
(* sequence (autoincrement primary key; no row is ever deleted).           *)
(***************************************************************************)
\* a session row that takes the default difficulty whatever was requested
NewSessionDefaultDifficulty(domain, difficulty, duration_minutes, t) ==
    [domain |-> domain, difficulty |-> "medium",
     duration_minutes |-> duration_minutes, status |-> "active", score |-> None,
     created_at |-> t, completed_at |-> None]

\* InterviewSession(domain, difficulty, duration_minutes) with the column defaults
NewSession(domain, difficulty, duration_minutes, t) ==
    [domain |-> domain, difficulty |-> difficulty,
     duration_minutes |-> duration_minutes, status |-> "active", score |-> None,
     created_at |-> t, completed_at |-> None]

\* a question row whose user_answer defaults to the empty string instead of null
NewQuestionEmptyAnswer(session_id, question_text) ==
    [session_id |-> session_id, question_text |-> question_text,
     user_answer |-> Some(""), score |-> None, score_rest |-> "", feedback |-> None,
     answered_at |-> None]

\* a question row that is not tied to the requesting session
NewQuestionNoSession(session_id, question_text) ==
    [session_id |-> 0, question_text |-> question_text, user_answer |-> None,
     score |-> None, score_rest |-> "", feedback |-> None, answered_at |-> None]

\* InterviewQuestion(session_id, question_text, expected_answer) with the column
\* defaults; expected_answer and asked_at, which no handler reads, are left out
NewQuestion(session_id, question_text) ==
    [session_id |-> session_id, question_text |-> question_text, user_answer |-> None,
     score |-> None, score_rest |-> "", feedback |-> None, answered_at |-> None]

\* the ids of the questions of a session, in ascending order of id
RECURSIVE QuestionIdsFrom(_, _, _)
QuestionIdsFrom(qs, sid, i) ==
    IF i > Len(qs) THEN << >>
    ELSE (IF qs[i].session_id = sid THEN <<i>> ELSE << >>) \o QuestionIdsFrom(qs, sid, i + 1)

\* the ids of the questions of a session, the newest first
QuestionIdsNewestFirst(qs, sid) ==
    LET ids == QuestionIdsFrom(qs, sid, 1) IN [i \in 1..Len(ids) |-> ids[Len(ids) + 1 - i]]

QuestionIds(qs, sid) == QuestionIdsFrom(qs, sid, 1)

\* the ids of the questions of a session that have a score
ScoredIds(qs, sid) == {i \in 1..Len(qs) : qs[i].session_id = sid /\ ~IsNone(qs[i].score)}

\* the scores of the scored questions of a session, in the order of their ids
ScoresOf(qs, sid) ==
    LET ids == SelectSeq(QuestionIds(qs, sid), LAMBDA i : ~IsNone(qs[i].score))
    IN  [k \in 1..Len(ids) |->
            [score |-> Val(qs[ids[k]].score), score_rest |-> qs[ids[k]].score_rest]]

RECURSIVE SumScores(_, _)
SumScores(qs, ids) ==
    IF ids = {} THEN 0
    ELSE LET i == CHOOSE k \in ids : TRUE IN Val(qs[i].score) + SumScores(qs, ids \ {i})

(***************************************************************************)
(* Python floats.  A score is kept as the decimal numeral it was written   *)
(* with: score, the whole thousandths, and score_rest, the digits after    *)
(* the third of the fraction without their trailing zeros.  Arithmetic on  *)
(* scores (sum, division, round) is done on the IEEE 754 doubles nearest   *)
(* to these decimals, as the interpreter does it.  A natural number of any *)
(* size is the sequence of its digits in base 2^15, the lowest first, with *)
(* no zero on top; a positive double is m * 2^e with m of 53 bits.         *)
(* (Subnormal and infinite values are out of the reach of scores.)         *)
(***************************************************************************)
Limb == 32768

RECURSIVE Pow2(_)
Pow2(n) == IF n = 0 THEN 1 ELSE 2 * Pow2(n - 1)

\* int.bit_length of a machine integer
RECURSIVE BitLength(_)
BitLength(n) == IF n = 0 THEN 0 ELSE 1 + BitLength(n \div 2)

RECURSIVE BigTrim(_)
BigTrim(a) ==
    IF a # << >> /\ a[Len(a)] = 0 THEN BigTrim(SubSeq(a, 1, Len(a) - 1)) ELSE a

RECURSIVE BigOfNat(_)
BigOfNat(n) == IF n = 0 THEN << >> ELSE <<n % Limb>> \o BigOfNat(n \div Limb)

RECURSIVE BigToNat(_)
BigToNat(a) == IF a = << >> THEN 0 ELSE a[1] + Limb * BigToNat(Tail(a))

BigBitLength(a) ==
    IF a = << >> THEN 0 ELSE 15 * (Len(a) - 1) + BitLength(a[Len(a)])

BigIsOdd(a) == a # << >> /\ a[1] % 2 = 1

RECURSIVE BigAddCarry(_, _, _)
BigAddCarry(a, b, carry) ==
    IF a = << >> /\ b = << >> THEN BigOfNat(carry)
    ELSE LET x == IF a = << >> THEN 0 ELSE a[1]
             y == IF b = << >> THEN 0 ELSE b[1]
         IN  <<(x + y + carry) % Limb>>
             \o BigAddCarry(IF a = << >> THEN a ELSE Tail(a),
                            IF b = << >> THEN b ELSE Tail(b), (x + y + carry) \div Limb)

BigAdd(a, b) == BigAddCarry(a, b, 0)

\* a * c + carry for machine integers c, carry <= 2^15
RECURSIVE BigTimesCarry(_, _, _)
BigTimesCarry(a, c, carry) ==
    IF a = << >> THEN BigOfNat(carry)
    ELSE <<(a[1] * c + carry) % Limb>>
         \o BigTimesCarry(Tail(a), c, (a[1] * c + carry) \div Limb)

BigTimes(a, c) == BigTrim(BigTimesCarry(a, c, 0))

\* divmod(a, d) for a machine integer 0 < d <= 2^15
RECURSIVE BigDivMod(_, _)
BigDivMod(a, d) ==
    IF a = << >> THEN [q |-> << >>, r |-> 0]
    ELSE LET high == BigDivMod(Tail(a), d)
             x == Limb * high.r + a[1]
         IN  [q |-> BigTrim(<<x \div d>> \o high.q), r |-> x % d]

\* a * 2^n
BigShl(a, n) ==
    IF a = << >> THEN a
    ELSE LET shifted == BigTimes(a, Pow2(n % 15))
         IN  IF n < 15 THEN shifted ELSE [i \in 1..(n \div 15) |-> 0] \o shifted

\* a // 2^n, and whether anything was cut off
BigShr(a, n) ==
    LET limbs == n \div 15 IN
    IF limbs >= Len(a) THEN [q |-> << >>, inexact |-> a # << >>]
    ELSE LET d == BigDivMod(SubSeq(a, limbs + 1, Len(a)), Pow2(n % 15))
         IN  [q |-> d.q, inexact |-> d.r # 0 \/ \E i \in 1..limbs : a[i] # 0]

\* a // 10^p, and whether anything was cut off
RECURSIVE BigDivTens(_, _, _)
BigDivTens(a, p, inexact) ==
    IF p = 0 THEN [q |-> a, inexact |-> inexact]
    ELSE LET d == BigDivMod(a, 10) IN BigDivTens(d.q, p - 1, inexact \/ d.r # 0)

\* the number written by the digits, after the number acc
RECURSIVE BigOfDigits(_, _)
BigOfDigits(digits, acc) ==
    IF digits = "" THEN acc
    ELSE BigOfDigits(SubSeq(digits, 2, Len(digits)),
                     BigTimesCarry(acc, 10, DigitVal(CharAt(digits, 1))))

\* the integer nearest to a / 2^cut (a little more than a when inexact), a tie to
\* the even one; cut > 0
BigRoundShr(a, cut, inexact) ==
    LET above == BigShr(a, cut - 1)
        kept == BigShr(above.q, 1).q
        up == BigIsOdd(above.q) /\ (inexact \/ above.inexact \/ BigIsOdd(kept))
    IN  IF up THEN BigAdd(kept, <<1>>) ELSE kept

FloatZero == [m |-> << >>, e |-> 0]

\* the double nearest to m * 2^e (a little more when inexact), a tie to the even one
RoundTo53(m, e, inexact) ==
    LET length == BigBitLength(m) IN
    IF m = << >> THEN FloatZero
    ELSE IF length <= 53 THEN [m |-> BigShl(m, 53 - length), e |-> e - (53 - length)]
    ELSE LET cut == length - 53
             rounded == BigRoundShr(m, cut, inexact)
         IN  IF BigBitLength(rounded) = 54
             THEN [m |-> BigShr(rounded, 1).q, e |-> e + cut + 1]
             ELSE [m |-> rounded, e |-> e + cut]

\* float() of the decimal numeral of n / 10^p
FloatOfDecimal(n, p) ==
    LET shift == 56 + 4 * p
        d == BigDivTens(BigShl(n, shift), p, FALSE)
    IN  RoundTo53(d.q, 0 - shift, d.inexact)

\* the double of a score
FloatOfScore(score, score_rest) ==
    FloatOfDecimal(BigOfDigits(score_rest, BigOfNat(score)), 3 + Len(score_rest))

\* a + b
FloatAdd(a, b) ==
    IF a.m = << >> THEN b
    ELSE IF b.m = << >> THEN a
    ELSE LET e == Min(a.e, b.e)
         IN  RoundTo53(BigAdd(BigShl(a.m, a.e - e), BigShl(b.m, b.e - e)), e, FALSE)

\* a / n for an int n > 0
FloatDivInt(a, n) ==
    LET d == BigDivMod(BigShl(a.m, 18), n) IN RoundTo53(d.q, a.e - 18, d.r # 0)

\* round(a, 2), in thousandths: the nearest hundredth of the exact value of the
\* double, a tie to the even one
FloatRound2(a) ==
    LET hundredfold == BigTimes(a.m, 100) IN
    IF a.e >= 0 THEN 10 * BigToNat(BigShl(hundredfold, a.e))
    ELSE 10 * BigToNat(BigRoundShr(hundredfold, 0 - a.e, FALSE))

\* sum(scores): the additions from the left, each rounded to a double, as the
\* builtin of CPython 3.11 and earlier adds floats (later interpreters carry a
\* correction term through the additions)
RECURSIVE FloatSum(_, _)
FloatSum(floats, acc) ==
    IF floats = << >> THEN acc ELSE FloatSum(Tail(floats), FloatAdd(acc, Head(floats)))

\* the same average cut to thousandths, without round(.., 2)
TruncatedAverage(scores) ==
    LET a == FloatDivInt(
                 FloatSum([i \in 1..Len(scores) |->
                              FloatOfScore(scores[i].score, scores[i].score_rest)],
                          FloatZero), Len(scores))
    IN  BigToNat(BigShr(BigTimes(a.m, 1000), 0 - a.e).q)

\* round(sum(scores) / len(scores), 2) in thousandths, for the scores in the
\* order of the query
RoundedAverage(scores) ==
    FloatRound2(FloatDivInt(
        FloatSum([i \in 1..Len(scores) |->
                     FloatOfScore(scores[i].score, scores[i].score_rest)], FloatZero),
        Len(scores)))

\* the scores that the evaluations of the request flows give in a Data Science
\* session
FlowScores ==
    {[score |-> e.score, score_rest |-> e.score_rest] :
         e \in {Evaluation[<<a, "Data Science", o>>] :
                   a \in AnswerTexts \cup {Val(t) : t \in Transcriptions},
                   o \in FlowEvaluations}}

\* the lists of up to n of these scores
RECURSIVE ScoreLists(_)
ScoreLists(n) ==
    IF n = 0 THEN {<< >>}
    ELSE LET shorter == ScoreLists(n - 1)
         IN  shorter \cup {Append(l, s) : l \in shorter, s \in FlowScores}

\* RoundedAverage, computed once for each of these lists
RoundedAverages ==
    << >> @@ [scores \in ScoreLists(MaxQuestions) \ {<< >>} |-> RoundedAverage(scores)]

\* a deadline check that also refuses a completed session
IsExpiredOrCompleted(s, t) ==
    s.status = "completed" \/ s.created_at + s.duration_minutes < t

\* the minutes from datetime.min, 0001-01-01 00:00, to the zero of the clock,
\* 2026-01-01 12:00
ClockZero == (365 * 2025 + 2025 \div 4 - 2025 \div 100 + 2025 \div 400) * 1440 + 720

\* session.created_at + timedelta(minutes=session.duration_minutes): None when the
\* sum is before datetime.min and the addition raises OverflowError.  datetime.max
\* is more minutes after the zero of the clock than an integer of the model holds.
SessionEndTime(s) ==
    IF s.created_at + s.duration_minutes < -ClockZero THEN None
    ELSE Some(s.created_at + s.duration_minutes)

\* session_end_time < current_time, for a session whose end time was computed
IsExpired(s, t) == Val(SessionEndTime(s)) < t

(***************************************************************************)
(* api/interview.py: the handlers.  A handler is a coroutine: it runs      *)
(* without interruption from its first line to an await of a service,      *)
(* where other requests are served and the clock advances, and then from   *)
(* the answer of the service to the next await or to its reply.  Each      *)
(* stretch is a function of the two tables ss and qs and of the clock t    *)
(* when it runs; its result is the tables after it, the response (HTTP     *)
(* status and body) when it replies, and the call that waits otherwise.    *)
(*                                                                         *)
(* Each request has a database session of its own (get_db).  The rows a    *)
(* request has read stay in that session as they were read: a later query  *)
(* of the same request finds the rows in the tables as they are then, but  *)
(* returns the objects it holds with the values it read (the identity map  *)
(* of the ORM; no handler refreshes or expires a row it has read), and     *)
(* db.commit() updates the columns whose assigned value differs from the   *)
(* value read.  A call that waits holds the question row and the session   *)
(* row its request read before the await and uses after it.                *)
(***************************************************************************)
\* the minutes a handler may spend at an await
Waits == {0, 1}

NoResp ==
    [op |-> "none", status |-> 0, arg |-> 0, context |-> None, id |-> 0,
     text |-> "", question_type |-> "", score |-> None, score_rest |-> "",
     feedback |-> None, suggestions |-> << >>, final_score |-> None, error |-> FALSE, after |-> ""]

\* a request slot that serves no request
IdleCall ==
    [pc |-> "idle", op |-> "", sid |-> 0, context |-> None, question_id |-> 0,
     answer_text |-> "", question |-> None, session |-> None, observed |-> 0,
     status |-> 0, id |-> 0]

\* a column after db.commit(): read is the value the request read, assigned the
\* value it assigned and stored the value of the table
Written(read, assigned, stored) == IF assigned = read THEN stored ELSE assigned

Result(ss, qs, r) == [sessions |-> ss, questions |-> qs, resp |-> r]

\* the body of complete_session for an existing session: the table afterwards
CompletedSessions(ss, qs, sid, t) ==
    LET scores == ScoresOf(qs, sid)
        average(averages) == IF scores \in DOMAIN averages THEN averages[scores]
                             ELSE RoundedAverage(scores)
    IN
    [ss EXCEPT ![sid].score = IF scores = << >> THEN @
                              ELSE Some(average(RoundedAverages)),
               ![sid].status = "completed",
               ![sid].completed_at = Some(t)]

\* a deadline check that marks the session completed without complete_session
ExpireSessionStatusOnly(ss, qs, sid, t) == [ss EXCEPT ![sid].status = "completed"]

\* a deadline check that runs complete_session whatever the status
ExpireSessionEveryTime(ss, qs, sid, t) == CompletedSessions(ss, qs, sid, t)

\* the deadline check shared by the three question handlers: the session table
\* after "if session.status != 'completed': await complete_session(...)";
\* complete_session awaits nothing, so the call does not suspend the handler
ExpireSession(ss, qs, sid, t) ==
    IF ss[sid].status # "completed" THEN CompletedSessions(ss, qs, sid, t) ELSE ss

\* the body of complete_session when the database session of the request holds
\* the row question of question qid and the row session of session sid as it
\* read them before an await: the query of line 389 selects the questions that
\* have a score in the table, and the sum of line 395 takes the score of qid from
\* the row held.  None when that score is null, so that the sum raises TypeError,
\* which the handler of line 405 answers 500 with nothing written; else the
\* table after the commit
CompletedSessionsHeld(ss, qs, sid, t, qid, question, session) ==
    LET ids == SelectSeq(QuestionIds(qs, sid), LAMBDA i : ~IsNone(qs[i].score))
        row(i) == IF i = qid THEN question ELSE qs[i]
        scores == [k \in 1..Len(ids) |->
                      [score |-> Val(row(ids[k]).score),
                       score_rest |-> row(ids[k]).score_rest]]
        average(averages) == IF scores \in DOMAIN averages THEN averages[scores]
                             ELSE RoundedAverage(scores)
    IN  IF \E k \in 1..Len(ids) : IsNone(row(ids[k]).score) THEN None
        ELSE Some([ss EXCEPT
                      ![sid].score = IF ids = << >> THEN @
                                     ELSE Written(session.score,
                                                  Some(average(RoundedAverages)), @),
                      ![sid].status = Written(session.status, "completed", @),
                      ![sid].completed_at = Written(session.completed_at, Some(t), @)])

\* the empty-context test without the strip
ContextEmptyNoStrip(context) == IsNone(context) \/ Val(context) = ""

\* not context or context.strip() == ""
ContextEmpty(context) == IsNone(context) \/ Val(context) = "" \/ Strip(Val(context)) = ""

NextMarker == "Moving to next question"

\* a lookup that returns the first question of the session, answered or not
ExistingQuestionAny(qs, sid, context) ==
    LET existing_questions == QuestionIds(qs, sid) IN
    IF ContextEmpty(context) \/ ~Contains(Val(context), NextMarker)
    THEN IF existing_questions # << >> THEN Some(existing_questions[1]) ELSE None
    ELSE None

\* a lookup that returns an unanswered question even when the context has the marker
ExistingQuestionIgnoringMarker(qs, sid, context) ==
    LET existing_questions == QuestionIds(qs, sid) IN
    IF ContextEmpty(context)
    THEN IF existing_questions # << >> THEN Some(existing_questions[1]) ELSE None
    ELSE LET unanswered_questions ==
                 SelectSeq(existing_questions, LAMBDA i : IsNone(qs[i].user_answer))
         IN  IF unanswered_questions # << >> THEN Some(unanswered_questions[1])
             ELSE None

\* the question get_next_question returns without generating one: None when a
\* new question has to be generated
ExistingQuestion(qs, sid, context) ==
    LET existing_questions == QuestionIds(qs, sid) IN
    IF ContextEmpty(context)
    THEN IF existing_questions # << >> THEN Some(existing_questions[1]) ELSE None
    ELSE IF Contains(Val(context), NextMarker) THEN None
    ELSE LET unanswered_questions ==
                 SelectSeq(existing_questions, LAMBDA i : IsNone(qs[i].user_answer))
         IN  IF unanswered_questions # << >> THEN Some(unanswered_questions[1])
             ELSE None

\* create_interview_session
CreateInterviewSession(ss, qs, t, domain, difficulty, duration_minutes) ==
    Result(Append(ss, NewSession(domain, difficulty, duration_minutes, t)), qs,
           [NoResp EXCEPT !.op = "start_session", !.status = 200, !.id = Len(ss) + 1])

\* get_next_question up to "await llm_service.generate_question" (155): the reply
\* when it returns or raises before generating (the OverflowError of the end time
\* is answered 500 by the handler of line 183), else the call that waits, with
\* the number of questions it has seen
ReceiveNextQuestion(ss, qs, t, sid, context) ==
    LET base == [NoResp EXCEPT !.op = "next_question", !.arg = sid,
                               !.context = context]
        call == [IdleCall EXCEPT !.op = "next_question", !.sid = sid,
                                 !.context = context,
                                 !.observed = IF sid \in 1..Len(ss)
                                              THEN Len(QuestionIds(qs, sid)) ELSE 0]
        replied(after, r) ==
            [sessions |-> after, resp |-> r,
             call |-> [call EXCEPT !.pc = "done", !.status = r.status, !.id = r.id]]
        found(question) ==
            IF ~IsNone(question)
            THEN replied(ss, [base EXCEPT !.status = 200, !.id = Val(question),
                                          !.text = qs[Val(question)].question_text,
                                          !.question_type = "technical"])
            ELSE [sessions |-> ss, resp |-> base,
                  call |-> [call EXCEPT !.pc = "generating"]]
    IN  IF sid \notin 1..Len(ss) THEN replied(ss, [base EXCEPT !.status = 404])
        ELSE IF IsNone(SessionEndTime(ss[sid]))
        THEN replied(ss, [base EXCEPT !.status = 500])
        ELSE IF IsExpired(ss[sid], t)
        THEN replied(ExpireSession(ss, qs, sid, t), [base EXCEPT !.status = 410])
        ELSE found(ExistingQuestion(qs, sid, context))

\* a handler that looks for an existing question again before it saves one
FinishNextQuestionRechecked(ss, qs, sid, context, outcome) ==
    LET base == [NoResp EXCEPT !.op = "next_question", !.status = 200, !.arg = sid,
                               !.context = context]
        saved(question, question_data) ==
            IF ~IsNone(question)
            THEN [questions |-> qs,
                  resp |-> [base EXCEPT !.id = Val(question),
                                        !.text = qs[Val(question)].question_text,
                                        !.question_type = "technical"]]
            ELSE [questions |-> Append(qs, NewQuestion(sid, question_data.question_text)),
                  resp |-> [base EXCEPT !.id = Len(qs) + 1,
                                        !.text = question_data.question_text,
                                        !.question_type = question_data.question_type]]
    IN  saved(ExistingQuestion(qs, sid, context),
              GeneratedQuestion[<<ss[sid].domain, ss[sid].difficulty, outcome>>])

\* get_next_question from the answer of the generation call: db.add, commit,
\* refresh and the reply
FinishNextQuestion(ss, qs, sid, context, outcome) ==
    LET saved(question_data) ==
            [questions |-> Append(qs, NewQuestion(sid, question_data.question_text)),
             resp |-> [NoResp EXCEPT !.op = "next_question", !.status = 200,
                                     !.arg = sid, !.context = context,
                                     !.id = Len(qs) + 1,
                                     !.text = question_data.question_text,
                                     !.question_type = question_data.question_type]]
    IN  saved(GeneratedQuestion[<<ss[sid].domain, ss[sid].difficulty, outcome>>])

\* get_next_question served with no other request in between
GetNextQuestion(ss, qs, t, sid, context, outcome) ==
    LET whole(step, saved) ==
            IF step.call.pc = "done" THEN Result(step.sessions, qs, step.resp)
            ELSE Result(ss, saved.questions, saved.resp)
    IN  whole(ReceiveNextQuestion(ss, qs, t, sid, context),
              IF sid \in 1..Len(ss) THEN FinishNextQuestion(ss, qs, sid, context, outcome)
              ELSE [questions |-> qs, resp |-> NoResp])

\* submit_answer up to "await llm_service.evaluate_answer" (217): the reply when
\* it raises before evaluating, else the call that waits, with the question row
\* it has read; base is the response without its status, which tells the route
\* the answer came by
ReceiveSubmitAnswer(base, ss, qs, t, qid, answer_text) ==
    LET call == [IdleCall EXCEPT !.op = base.op, !.question_id = qid,
                                 !.answer_text = answer_text]
        replied(after, status) ==
            [sessions |-> after, resp |-> [base EXCEPT !.status = status],
             call |-> [call EXCEPT !.pc = "done", !.status = status]]
    IN  IF qid \notin 1..Len(qs) THEN replied(ss, 404)
        ELSE IF IsNone(SessionEndTime(ss[qs[qid].session_id])) THEN replied(ss, 500)
        ELSE IF IsExpired(ss[qs[qid].session_id], t)
        THEN replied(ExpireSession(ss, qs, qs[qid].session_id, t), 410)
        ELSE [sessions |-> ss, resp |-> base,
              call |-> [call EXCEPT !.pc = "evaluating", !.question = Some(qs[qid])]]

\* submit_answer up to its await when submit_audio_answer calls it (322) with
\* its own database session, which holds question and session as the request
\* read them before it waited for the transcription: the deadline check reads
\* session.status from the row held, and complete_session runs on the rows held
ResumeSubmitAnswer(base, ss, qs, t, qid, answer_text, question, session) ==
    LET call == [IdleCall EXCEPT !.op = base.op, !.question_id = qid,
                                 !.answer_text = answer_text]
        replied(after, status) ==
            [sessions |-> after, resp |-> [base EXCEPT !.status = status],
             call |-> [call EXCEPT !.pc = "done", !.status = status]]
        completed(done) == IF IsNone(done) THEN replied(ss, 500)
                           ELSE replied(Val(done), 410)
    IN  IF IsNone(SessionEndTime(session)) THEN replied(ss, 500)
        ELSE IF IsExpired(session, t)
        THEN IF session.status # "completed"
             THEN completed(CompletedSessionsHeld(ss, qs, question.session_id, t, qid,
                                                  question, session))
             ELSE replied(ss, 410)
        ELSE [sessions |-> ss, resp |-> base,
              call |-> [call EXCEPT !.pc = "evaluating", !.question = Some(question)]]

\* a handler that checks the deadline again when the evaluation has answered
FinishSubmitAnswerRechecked(base, ss, qs, t, qid, answer_text, outcome, question) ==
    IF IsExpired(ss[qs[qid].session_id], t)
    THEN Result(ExpireSession(ss, qs, qs[qid].session_id, t), qs,
                [base EXCEPT !.status = 410])
    ELSE LET stored(evaluation) ==
                 Result(ss,
                        [qs EXCEPT ![qid].user_answer = Some(answer_text),
                                   ![qid].score = Some(evaluation.score),
                                   ![qid].score_rest = evaluation.score_rest,
                                   ![qid].feedback = Some(evaluation.feedback),
                                   ![qid].answered_at = Some(t)],
                        [base EXCEPT !.status = 200, !.id = qid,
                                     !.score = Some(evaluation.score),
                                     !.score_rest = evaluation.score_rest,
                                     !.feedback = Some(evaluation.feedback),
                                     !.suggestions = evaluation.suggestions])
         IN  stored(Evaluation[<<answer_text, ss[qs[qid].session_id].domain, outcome>>])

\* submit_answer from the answer of the evaluation, at time t: the four
\* assignments to the question row the request holds, the commit and the reply
FinishSubmitAnswer(base, ss, qs, t, qid, answer_text, outcome, question) ==
    LET stored(evaluation) ==
            Result(ss,
                   [qs EXCEPT
                       ![qid].user_answer =
                           Written(question.user_answer, Some(answer_text), @),
                       ![qid].score =
                           IF /\ Some(evaluation.score) = question.score
                              /\ evaluation.score_rest = question.score_rest
                           THEN @ ELSE Some(evaluation.score),
                       ![qid].score_rest =
                           IF /\ Some(evaluation.score) = question.score
                              /\ evaluation.score_rest = question.score_rest
                           THEN @ ELSE evaluation.score_rest,
                       ![qid].feedback =
                           Written(question.feedback, Some(evaluation.feedback), @),
                       ![qid].answered_at = Written(question.answered_at, Some(t), @)],
                   [base EXCEPT !.status = 200, !.id = qid,
                                !.score = Some(evaluation.score),
                                !.score_rest = evaluation.score_rest,
                                !.feedback = Some(evaluation.feedback),
                                !.suggestions = evaluation.suggestions])
    IN  stored(Evaluation[<<answer_text, ss[qs[qid].session_id].domain, outcome>>])

\* submit_answer served with no other request in between: the deadline is read
\* at t, the evaluation takes waited minutes and answered_at is the clock after it
SubmitAnswerAs(base, ss, qs, t, qid, answer_text, outcome, waited) ==
    LET whole(step) ==
            IF step.call.pc = "done" THEN Result(step.sessions, qs, step.resp)
            ELSE FinishSubmitAnswer(base, ss, qs, t + waited, qid, answer_text, outcome,
                                    qs[qid])
    IN  whole(ReceiveSubmitAnswer(base, ss, qs, t, qid, answer_text))

SubmitAnswerBase(qid) == [NoResp EXCEPT !.op = "submit_answer", !.arg = qid]

SubmitAnswerResult(ss, qs, t, qid, answer_text, outcome, waited) ==
    SubmitAnswerAs(SubmitAnswerBase(qid), ss, qs, t, qid, answer_text, outcome, waited)

\* the strings the handler treats as a failed transcription
TranscriptionFailures ==
    {"Speech recognition not available. Please type your answer.",
     "Could not understand the audio. Please try again.",
     "Speech recognition was cancelled. Please try again.",
     "Speech recognition failed. Please type your answer.",
     "Speech recognition error. Please type your answer."}

SubmitAudioBase(qid) == [NoResp EXCEPT !.op = "submit_audio", !.arg = qid]

\* submit_audio_answer up to "await audio_file.read()" (272): the reply when it
\* raises, else the call that waits for the transcription, with the question row
\* and the session row it has read
ReceiveSubmitAudioAnswer(ss, qs, t, qid) ==
    LET held(step) ==
            IF step.call.pc = "done" THEN step
            ELSE [step EXCEPT !.call.pc = "transcribing",
                              !.call.session = Some(ss[qs[qid].session_id])]
    IN  held(ReceiveSubmitAnswer(SubmitAudioBase(qid), ss, qs, t, qid, ""))

\* submit_audio_answer from the answer of speech_to_text (275): the reply for a
\* transcription it rejects, else, the audio uploaded (313; the handler reads
\* and writes nothing between the transcription and the upload), submit_answer
\* (322) up to its await
HearSubmitAudioAnswer(ss, qs, t, qid, transcribed_text, question, session) ==
    LET base == SubmitAudioBase(qid)
        rejected(feedback, suggestions) ==
            [sessions |-> ss,
             resp |-> [base EXCEPT !.status = 200, !.id = qid, !.score = Some(0),
                                   !.error = TRUE, !.feedback = Some(feedback),
                                   !.suggestions = suggestions],
             call |-> [IdleCall EXCEPT !.pc = "done", !.op = base.op,
                                       !.question_id = qid, !.status = 200]]
    IN  IF Falsy(transcribed_text) \/ Val(transcribed_text) \in TranscriptionFailures
        THEN rejected("No speech detected in the audio. Please ensure you're speaking clearly into the microphone.",
                      <<"Make sure your microphone is working properly",
                        "Speak clearly and at a normal pace",
                        "Try recording again or type your answer instead">>)
        ELSE IF Len(Strip(Val(transcribed_text))) < 10
        THEN rejected("Answer too short: '" \o Val(transcribed_text)
                          \o "'. Please provide a more detailed response.",
                      <<"Elaborate on your answer with examples",
                        "Explain your reasoning",
                        "Consider the key concepts related to the question">>)
        ELSE ResumeSubmitAnswer(base, ss, qs, t, qid, Val(transcribed_text), question,
                                session)

\* submit_audio_answer served with no other request in between: the
\* transcription and the upload take heard minutes, the evaluation waited
SubmitAudioAnswerResult(ss, qs, t, qid, transcribed_text, outcome, heard, waited) ==
    LET whole(first, second) ==
            IF first.call.pc = "done" THEN Result(first.sessions, qs, first.resp)
            ELSE IF second.call.pc = "done" THEN Result(second.sessions, qs, second.resp)
            ELSE FinishSubmitAnswer(SubmitAudioBase(qid), ss, qs, t + heard + waited, qid,
                                    Val(transcribed_text), outcome, qs[qid])
    IN  whole(ReceiveSubmitAudioAnswer(ss, qs, t, qid),
              IF qid \in 1..Len(qs)
              THEN HearSubmitAudioAnswer(ss, qs, t + heard, qid, transcribed_text,
                                         qs[qid], ss[qs[qid].session_id])
              ELSE [sessions |-> ss, resp |-> NoResp, call |-> IdleCall])

\* complete_session: the 404 raised inside the try block is an Exception, so
\* the handler of line 405 turns it into a 500
CompleteSessionResult(ss, qs, t, sid) ==
    LET base == [NoResp EXCEPT !.op = "complete_session", !.arg = sid]
        reply(done) == Result(done, qs,
                              [base EXCEPT !.status = 200, !.id = sid,
                                           !.final_score = done[sid].score])
    IN  IF sid \notin 1..Len(ss) THEN Result(ss, qs, [base EXCEPT !.status = 500])
        ELSE reply(CompletedSessions(ss, qs, sid, t))

(***************************************************************************)
(* The requests.  Nothing serializes them: while a handler waits at an     *)
(* await its call holds a request slot, other requests are received and    *)
(* answered and the clock advances.  resp is the last response sent;       *)
(* resp.after is history: it tells what the response before it was.        *)
(***************************************************************************)
EmptyContexts == {None, Some(""), Some("  ")}

\* no request is being served
NoCalls == [r \in 1..MaxRequests |-> IdleCall]

\* a request is received in the first slot that is free
FreeSlot(r) == inflight[r].pc = "idle" /\ \A k \in 1..(r - 1) : inflight[k].pc # "idle"

\* a handler has run to an await or to its reply: while it waits its call holds
\* slot r; when it has replied the slot is free and its response is the last one
Suspend(r, step, after) ==
    /\ sessions' = step.sessions
    /\ inflight' = [inflight EXCEPT ![r] = IF step.call.pc = "done" THEN IdleCall
                                           ELSE [step.call EXCEPT !.observed = 0]]
    /\ resp' = IF step.call.pc = "done" THEN [step.resp EXCEPT !.after = after]
               ELSE resp
    /\ UNCHANGED <<questions, now, ev, rag>>

\* a handler has run from the answer of its last await to its reply
Reply(r, step, after) ==
    /\ sessions' = step.sessions
    /\ questions' = step.questions
    /\ resp' = [step.resp EXCEPT !.after = after]
    /\ inflight' = [inflight EXCEPT ![r] = IdleCall]
    /\ UNCHANGED <<now, ev, rag>>

\* the response before was a question served to an empty context on session sid
AfterQuestion(sid) ==
    IF resp.op = "next_question" /\ resp.status = 200 /\ resp.arg = sid
       /\ resp.context \in EmptyContexts
    THEN "first_question" ELSE ""

\* the question has an answer already, or the response before was a
\* next_question refused on the session of the question
AfterAnswer(qid) ==
    IF qid \in 1..Len(questions) /\ ~IsNone(questions[qid].user_answer)
    THEN "answered_before"
    ELSE IF /\ qid \in 1..Len(questions)
            /\ resp.op = "next_question" /\ resp.status = 410
            /\ resp.arg = questions[qid].session_id
    THEN "expired_before" ELSE ""

\* POST /sessions
StartSession(domain, difficulty, duration_minutes) ==
    /\ Len(sessions) < MaxSessions
    /\ \E r \in {CreateInterviewSession(sessions, questions, now, domain, difficulty,
                                        duration_minutes)} :
           /\ sessions' = r.sessions
           /\ resp' = r.resp
    /\ UNCHANGED <<questions, now, ev, rag, inflight>>

\* POST /questions up to the await of the generation call, while the table has
\* room for the question it may save
ReceiveQuestion(r, sid, context) ==
    /\ FreeSlot(r)
    /\ \E step \in {ReceiveNextQuestion(sessions, questions, now, sid, context)} :
           /\ step.call.pc = "generating" =>
                  Len(questions)
                      + Cardinality({k \in 1..MaxRequests :
                                         inflight[k].pc = "generating"})
                      < MaxQuestions
           /\ Suspend(r, step, AfterQuestion(sid))

\* POST /questions from the answer of the generation call
PersistQuestion(r, outcome) ==
    /\ inflight[r].pc = "generating"
    /\ \E step \in {FinishNextQuestion(sessions, questions, inflight[r].sid,
                                        inflight[r].context, outcome)} :
           Reply(r, [sessions |-> sessions, questions |-> step.questions,
                     resp |-> step.resp],
                 AfterQuestion(inflight[r].sid))

\* POST /questions/{question_id}/answer up to the await of the evaluation
ReceiveAnswer(r, qid, answer_text) ==
    /\ FreeSlot(r)
    /\ Suspend(r, ReceiveSubmitAnswer(SubmitAnswerBase(qid), sessions, questions, now,
                                      qid, answer_text),
               AfterAnswer(qid))

\* POST /questions/{question_id}/audio up to its first await
ReceiveAudio(r, qid) ==
    /\ FreeSlot(r)
    /\ Suspend(r, ReceiveSubmitAudioAnswer(sessions, questions, now, qid), "")

\* POST /questions/{question_id}/audio from the answer of speech_to_text to the
\* await of the evaluation, or to its reply
HearAudio(r, transcribed_text) ==
    /\ inflight[r].pc = "transcribing"
    /\ Suspend(r, HearSubmitAudioAnswer(sessions, questions, now,
                                        inflight[r].question_id, transcribed_text,
                                        Val(inflight[r].question),
                                        Val(inflight[r].session)),
               "")

\* submit_answer from the answer of the evaluation, for a text answer and for a
\* transcription
PersistAnswer(r, outcome) ==
    /\ inflight[r].pc = "evaluating"
    /\ Reply(r, FinishSubmitAnswer(IF inflight[r].op = "submit_audio"
                                   THEN SubmitAudioBase(inflight[r].question_id)
                                   ELSE SubmitAnswerBase(inflight[r].question_id),
                                   sessions, questions, now, inflight[r].question_id,
                                   inflight[r].answer_text, outcome,
                                   Val(inflight[r].question)),
             IF inflight[r].op = "submit_audio" THEN ""
             ELSE AfterAnswer(inflight[r].question_id))

\* PUT /sessions/{session_id}/complete
CompleteSession(sid) ==
    \E r \in {CompleteSessionResult(sessions, questions, now, sid)} :
        /\ sessions' = r.sessions
        /\ resp' = [r.resp EXCEPT !.after =
                       IF resp.op = "submit_answer" /\ resp.status = 410
                          /\ questions[resp.arg].session_id = sid
                       THEN "expired_answer" ELSE ""]
        /\ UNCHANGED <<questions, now, ev, rag, inflight>>

\* the wall clock (datetime.now) advances
Tick ==
    /\ now < MaxTime
    /\ now' = now + 1
    /\ UNCHANGED <<sessions, questions, resp, ev, rag, inflight>>

(***************************************************************************)
(* Spec: the request handlers, any number of sessions, questions and       *)
(* requests in flight up to the bounds.  The clock is counted from the     *)
(* creation of the first session.                                          *)
(***************************************************************************)
Init ==
    /\ sessions = << >>
    /\ questions = << >>
    /\ now = 0
    /\ resp = NoResp
    /\ ev = IdleEv
    /\ rag = IdleRag
    /\ inflight = NoCalls

Next ==
    \/ \E m \in Durations : StartSession("Data Science", "medium", m)
    \/ \E r \in 1..MaxRequests, sid \in 1..MaxSessions, c \in Contexts :
           ReceiveQuestion(r, sid, c)
    \/ \E r \in 1..MaxRequests : PersistQuestion(r, Failure("error"))
    \/ \E r \in 1..MaxRequests, qid \in 1..MaxQuestions, a \in AnswerTexts :
           ReceiveAnswer(r, qid, a)
    \/ \E r \in 1..MaxRequests, qid \in 1..MaxQuestions : ReceiveAudio(r, qid)
    \/ \E r \in 1..MaxRequests, t \in Transcriptions : HearAudio(r, t)
    \/ \E r \in 1..MaxRequests :
           PersistAnswer(r, FlowEvaluation(inflight[r].question_id))
    \/ \E sid \in 1..MaxSessions : CompleteSession(sid)
    \/ sessions # << >> /\ Tick

Spec == Init /\ [][Next]_vars

(***************************************************************************)
(* GenSpec: the first question of one session of any domain and           *)
(* difficulty, before its deadline, with every outcome of the generation   *)
(* call and of the evaluation of the first answer to it; an answer to the  *)
(* answered question is evaluated with one outcome.                        *)
(***************************************************************************)
\* question qid has an answer
Answered(qid) == ~IsNone(questions[qid].user_answer)

GenNext ==
    \/ \E d \in Domains, f \in Difficulties :
           sessions = << >> /\ StartSession(d, f, 1)
    \/ \E r \in 1..MaxRequests, c \in Contexts :
           questions = << >> /\ ReceiveQuestion(r, 1, c)
    \/ \E r \in 1..MaxRequests, o \in QuestionOutcomes :
           questions = << >> /\ PersistQuestion(r, o)
    \/ \E r \in 1..MaxRequests : questions # << >> /\ PersistQuestion(r, Failure("error"))
    \/ \E r \in 1..MaxRequests : ReceiveAnswer(r, 1, "asdkj qpx 991")
    \/ \E r \in 1..MaxRequests, o \in EvaluationOutcomes :
           questions # << >> /\ ~Answered(1) /\ PersistAnswer(r, o)
    \/ \E r \in 1..MaxRequests :
           questions # << >> /\ Answered(1) /\ PersistAnswer(r, Text("Score: 85"))
    \/ sessions # << >> /\ Tick

GenSpec == Init /\ [][GenNext]_vars

(***************************************************************************)
(* EvalSpec: the evaluation pipeline as a function of its inputs, the      *)
(* outcome of the generation call, the answer and the domain.              *)
(***************************************************************************)
EvalInit ==
    /\ sessions = << >>
    /\ questions = << >>
    /\ now = 0
    /\ resp = NoResp
    /\ ev \in [phase : {"input"}, outcome : EvaluationOutcomes, answer : EvalAnswers,
               domain : {"Data Science", "Cooking"}, result : {NoResult}]
    /\ rag = IdleRag
    /\ inflight = NoCalls

Evaluate ==
    /\ ev.phase = "input"
    /\ ev' = [ev EXCEPT !.phase = "done",
                        !.result = EvaluateAnswer(ev.answer, ev.domain, ev.outcome)]
    /\ UNCHANGED <<sessions, questions, now, resp, rag, inflight>>

EvalNext == Evaluate

EvalSpec == EvalInit /\ [][EvalNext]_vars

(***************************************************************************)
(* AudioSpec: audio answers to the first question of one session, with     *)
(* every result of the speech-to-text service for the first answer and the *)
(* transcriptions of Spec for an answer to the answered question.          *)
(***************************************************************************)
AudioNext ==
    \/ sessions = << >> /\ StartSession("Data Science", "medium", 0)
    \/ \E r \in 1..MaxRequests : questions = << >> /\ ReceiveQuestion(r, 1, None)
    \/ \E r \in 1..MaxRequests : PersistQuestion(r, Failure("error"))
    \/ \E r \in 1..MaxRequests : ReceiveAudio(r, 1)
    \/ \E r \in 1..MaxRequests, t \in SpeechResults :
           questions # << >> /\ ~Answered(1) /\ HearAudio(r, t)
    \/ \E r \in 1..MaxRequests, t \in Transcriptions :
           questions # << >> /\ Answered(1) /\ HearAudio(r, t)
    \/ \E r \in 1..MaxRequests, o \in FlowEvaluations : PersistAnswer(r, o)
    \/ CompleteSession(1)
    \/ sessions # << >> /\ Tick

AudioSpec == Init /\ [][AudioNext]_vars

(***************************************************************************)
(* ConcSpec: next_question requests alone, each kept in its slot with the  *)
(* status and the id of its reply and with the number of questions of the  *)
(* session it saw when it was received; resp is the last reply.            *)
(***************************************************************************)
Receive(r, sid, context) ==
    /\ inflight[r].pc = "idle"
    /\ \E step \in {ReceiveNextQuestion(sessions, questions, now, sid, context)} :
           /\ sessions' = step.sessions
           /\ inflight' = [inflight EXCEPT ![r] = step.call]
           /\ resp' = IF step.call.pc = "done" THEN step.resp ELSE resp
    /\ UNCHANGED <<questions, now, ev, rag>>

Persist(r, outcome) ==
    /\ inflight[r].pc = "generating"
    /\ \E step \in {FinishNextQuestion(sessions, questions, inflight[r].sid,
                                        inflight[r].context, outcome)} :
           /\ questions' = step.questions
           /\ inflight' = [inflight EXCEPT ![r].pc = "done", ![r].status = 200,
                                           ![r].id = step.resp.id]
           /\ resp' = step.resp
    /\ UNCHANGED <<sessions, now, ev, rag>>

ConcNext ==
    \/ \E m \in Durations : StartSession("Data Science", "medium", m)
    \/ \E r \in 1..MaxRequests, sid \in 1..MaxSessions, c \in Contexts : Receive(r, sid, c)
    \/ \E r \in 1..MaxRequests : Persist(r, Failure("error"))
    \/ Tick

ConcSpec == Init /\ [][ConcNext]_vars

(***************************************************************************)
(* LateSpec: text answers in flight across the deadline of one session,    *)
(* every question asked with the marker, with a second answer text for the *)
(* first question once it is answered, so that two requests on it assign   *)
(* different values.                                                       *)
(***************************************************************************)
LateAnswers == AnswerTexts \cup {"asdkj qpx 991"}

LateNext ==
    \/ sessions = << >> /\ StartSession("Data Science", "medium", 0)
    \/ \E r \in 1..MaxRequests :
           /\ sessions # << >>
           /\ ReceiveQuestion(r, 1, Some("Answered question 1. Moving to next question"))
    \/ \E r \in 1..MaxRequests : PersistQuestion(r, Failure("error"))
    \/ \E r \in 1..MaxRequests, qid \in 1..MaxQuestions, a \in AnswerTexts :
           qid <= Len(questions) /\ ReceiveAnswer(r, qid, a)
    \/ \E r \in 1..MaxRequests, a \in LateAnswers \ AnswerTexts :
           questions # << >> /\ Answered(1) /\ ReceiveAnswer(r, 1, a)
    \/ \E r \in 1..MaxRequests :
           PersistAnswer(r, FlowEvaluation(inflight[r].question_id))
    \/ sessions # << >> /\ CompleteSession(1)
    \/ sessions # << >> /\ Tick

LateSpec == Init /\ [][LateNext]_vars

(***************************************************************************)
(* FallbackSpec: evaluate_answer while the generation call fails, on       *)
(* answers of up to MaxWords words.                                        *)
(***************************************************************************)
\* n times the word w, separated by single spaces
RECURSIVE Repeated(_, _)
Repeated(w, n) ==
    IF n = 0 THEN ""
    ELSE IF n = 1 THEN w
    ELSE LET h == n \div 2 IN Repeated(w, h) \o " " \o Repeated(w, n - h)

\* the first k keywords of the domain "Data Science", followed by pad more words
KeywordAnswer(k, pad) ==
    Join(Take(GetDomainKeywords("Data Science"), k) \o
         (IF pad = 0 THEN << >> ELSE <<Repeated("ab", pad)>>), " ")

FallbackAnswers ==
    {Repeated(w, n) : w \in {"ab", "Zq"}, n \in 0..MaxWords}
        \cup {KeywordAnswer(k, pad) : k \in 0..MaxKeywords, pad \in {0, 12, 80}}
        \cup {"I don't know", "no idea", "I'm Not Sure, to be honest with you",
              "ab  ab ab ab", " ab ab ab ab\tab\n",
              "I would use the model to check bias and variance",
              "Linear REGRESSION, then Clustering"}

FallbackInit ==
    /\ sessions = << >>
    /\ questions = << >>
    /\ now = 0
    /\ resp = NoResp
    /\ ev \in [phase : {"input"},
               outcome : {Failure("connect_error"), Failure("error"), Failure("nonstring")},
               answer : FallbackAnswers, domain : {"Data Science", "Cooking"},
               result : {NoResult}]
    /\ rag = IdleRag
    /\ inflight = NoCalls

FallbackSpec == FallbackInit /\ [][EvalNext]_vars

(***************************************************************************)
(* Retrieval as a pure function: a topics.md for the domain "robotics" is  *)
(* drawn from a bounded set of documents, loaded, and queried once; a      *)
(* topics.md for "baking" may be written after the service has loaded.     *)
(***************************************************************************)
MaxSections == 3

TopicBlocks ==
    <<"## Kinematics\nRobot arm joints\n",
      "## Control\nPID control of a robot arm\n\n",
      "## Vision\ncamera calibration\n",
      "## Planning\npath planning for a robot\n",
      "## Dynamics\nforces and torque\n">>

RECURSIVE ConcatBlocks(_)
ConcatBlocks(order) ==
    IF order = << >> THEN ""
    ELSE TopicBlocks[Head(order)] \o ConcatBlocks(Tail(order))

BlockOrders ==
    UNION {{order \in [1..n -> 1..Len(TopicBlocks)] :
               \A i, j \in 1..n : i # j => order[i] # order[j]} :
           n \in 0..Min(MaxSections, Len(TopicBlocks))}

Documents ==
    {preamble \o ConcatBlocks(order) :
        preamble \in {"", "# Robotics\nrobot basics\n"}, order \in BlockOrders}

Queries ==
    {"robotics interview topics", QuestionQuery("robotics", "medium"),
     "Robot arm control", "robot", "path  path camera", "baking"}

\* the domain of the request is any string: the names of the directories and
\* other spellings of a path to the first, relative and absolute
RagDomains ==
    {"robotics", "baking", "audio", "./robotics/", "baking/../robotics",
     "audio/../robotics", "/srv/backend/app/data/robotics",
     "../../../backend/app/data/robotics"}

\* baking/topics.md, when it is written after the knowledge base was loaded
LateDocuments == {None, Some("# Baking\n## Bread\nyeast and flour\n")}

Limits == 0..3

\* the working directory of the service
WorkDir == <<"srv", "backend">>

\* the directory app/data/name and its topics.md
DomainDir(name) == WorkDir \o DataDir \o <<name>>
DomainTopics(name) == Append(DomainDir(name), "topics.md")

\* the file system when the service starts: robotics/topics.md, and the
\* directory audio that StorageService makes for the recordings (speech.py 295)
LoadedFiles(content) ==
    [cwd |-> WorkDir,
     dirs |-> {SubSeq(WorkDir \o DataDir, 1, k) : k \in 1..(Len(WorkDir) + 2)}
                  \cup {DomainDir("robotics"), DomainDir("audio")},
     files |-> [f \in {DomainTopics("robotics")} |-> content]]

\* the file system when the request is served
ServedFiles(content, written) ==
    IF IsNone(written) THEN LoadedFiles(content)
    ELSE [LoadedFiles(content) EXCEPT
             !.dirs = @ \cup {DomainDir("baking")},
             !.files = @ @@ [f \in {DomainTopics("baking")} |-> Val(written)]]

\* _initialize_knowledge_base: the sections of the topics.md of every directory
\* of data_dir that has one, by the name of the directory
KnowledgeBase(content) ==
    LET fs == LoadedFiles(content)
        loaded == {d \in fs.dirs :
                      /\ Len(d) = Len(fs.cwd) + 3
                      /\ SubSeq(d, 1, Len(d) - 1) = fs.cwd \o DataDir
                      /\ Append(d, "topics.md") \in DOMAIN fs.files}
    IN  [name \in {d[Len(d)] : d \in loaded} |->
            SplitMarkdownContent(fs.files[DomainTopics(name)], name)]

RagInit ==
    /\ sessions = << >>
    /\ questions = << >>
    /\ now = 0
    /\ resp = NoResp
    /\ ev = IdleEv
    /\ rag \in [phase : {"input"}, content : Documents, written : LateDocuments,
                query : Queries, domain : RagDomains, n_results : Limits,
                result : {<< >>}]
    /\ inflight = NoCalls

Retrieve ==
    /\ rag.phase = "input"
    /\ rag' = [rag EXCEPT !.phase = "done",
                          !.result = GetRelevantContext(KnowledgeBase(rag.content),
                                                        ServedFiles(rag.content,
                                                                    rag.written),
                                                        rag.query, rag.domain,
                                                        rag.n_results)]
    /\ UNCHANGED <<sessions, questions, now, resp, ev, inflight>>

RagNext == Retrieve

RagSpec == RagInit /\ [][RagNext]_vars

(***************************************************************************)
(* Properties of the session flow, checked under Spec.                     *)
(***************************************************************************)
Deadline(s) == s.created_at + s.duration_minutes

\* C1: two successive next_question requests on the same session, both with an
\* empty context (absent, empty or whitespace only) and both served, the second
\* right after the first or later, return the same question id, and the second
\* one adds no question row.
C1_EmptyContextReplay ==
    \A sid \in 1..Len(sessions), c1 \in EmptyContexts, c2 \in EmptyContexts,
       t \in now..(MaxTime + 1) :
        LET first == GetNextQuestion(sessions, questions, now, sid, c1, Failure("error"))
            second == GetNextQuestion(first.sessions, first.questions, t, sid, c2,
                                      Failure("error"))
        IN  (first.resp.status = 200 /\ second.resp.status = 200) =>
                /\ second.resp.id = first.resp.id
                /\ second.questions = first.questions

\* the second of two successive served empty-context requests has returned a
\* question that had been answered, not the newest one
C1_Witness ==
    /\ resp.op = "next_question" /\ resp.status = 200
    /\ resp.after = "first_question"
    /\ resp.context \in EmptyContexts
    /\ resp.id = 1
    /\ ~IsNone(questions[1].user_answer)
    /\ Len(questions) > 1

\* C2: a next_question request on an existing session is refused as expired (410)
\* exactly when now > created_at + duration_minutes; a refused request creates and
\* returns no question, and leaves the session completed with completed_at set.
C2_ExpiredExactlyAfterDeadline ==
    \A sid \in 1..Len(sessions), c \in Contexts :
        LET r == GetNextQuestion(sessions, questions, now, sid, c, Failure("error"))
            late == now > Deadline(sessions[sid])
        IN  /\ (r.resp.status = 410) <=> late
            /\ ~late => r.resp.status = 200 /\ r.resp.id \in 1..Len(r.questions)
            /\ late => /\ r.questions = questions
                       /\ r.resp.id = 0 /\ r.resp.text = ""
                       /\ r.sessions[sid].status = "completed"
                       /\ ~IsNone(r.sessions[sid].completed_at)

\* a request on a session whose end time is before the year 1 was answered 500,
\* and the session is still active past its deadline
C2_Witness ==
    /\ resp.op = "next_question" /\ resp.status = 500
    /\ resp.arg \in 1..Len(sessions)
    /\ now > Deadline(sessions[resp.arg])
    /\ sessions[resp.arg].status = "active"
    /\ IsNone(sessions[resp.arg].completed_at)
    /\ questions = << >>

\* C3: a submit_answer made after the deadline is refused as expired and leaves
\* every column of the question unchanged; a complete_session that follows returns
\* the average, rounded to two decimals, of the scores of the session, or no score
\* when it has none; and these are exactly the scores of the questions answered
\* before the deadline, for a score is only ever written by the reply of a
\* submit_answer that was received by the deadline of the session.
C3_LateAnswerRefused ==
    /\ [](\A qid \in 1..Len(questions), a \in AnswerTexts, o \in FlowEvaluations,
             waited \in Waits, t \in now..MaxTime :
              LET sid == questions[qid].session_id
                  late == SubmitAnswerResult(sessions, questions, now, qid, a, o, waited)
                  final == CompleteSessionResult(late.sessions, late.questions, t, sid)
                  scored == ScoredIds(questions, sid)
                  n == Cardinality(scored)
                  total == SumScores(questions, scored)
              IN  now > Deadline(sessions[sid]) =>
                      /\ late.resp.status = 410
                      /\ late.questions = questions
                      /\ final.resp.status = 200
                      /\ IF n = 0 THEN IsNone(final.resp.final_score)
                         ELSE /\ ~IsNone(final.resp.final_score)
                              /\ Val(final.resp.final_score) % 10 = 0
                              /\ n * Val(final.resp.final_score) - total
                                     \in (-5 * n)..(5 * n))
    /\ [][/\ \A i \in 1..Len(questions') :
                 IF i \in 1..Len(questions)
                 THEN questions'[i].score # questions[i].score =>
                          \E r \in 1..MaxRequests :
                              /\ inflight[r].pc = "evaluating"
                              /\ inflight[r].question_id = i
                              /\ inflight'[r].pc = "idle"
                 ELSE IsNone(questions'[i].score)
          /\ \A r \in 1..MaxRequests :
                 (inflight[r].pc # "evaluating" /\ inflight'[r].pc = "evaluating") =>
                     now <= Deadline(sessions[questions[inflight'[r].question_id]
                                                 .session_id])]_vars

\* complete_session has answered right after a refused late answer, with two
\* scored questions whose average is not a whole number of hundredths; the
\* evaluation of one of them ended after the deadline
C3_Witness ==
    /\ resp.op = "complete_session" /\ resp.status = 200
    /\ resp.after = "expired_answer"
    /\ Cardinality(ScoredIds(questions, resp.arg)) = 2
    /\ SumScores(questions, ScoredIds(questions, resp.arg)) % 20 # 0
    /\ ~IsNone(resp.final_score)
    /\ \E i \in ScoredIds(questions, resp.arg) :
           Val(questions[i].answered_at) > Deadline(sessions[resp.arg])

\* C4: in every reachable state each question has user_answer, score and feedback
\* all null or all non-null.
C4_AnswerColumnsTogether ==
    \A i \in 1..Len(questions) :
        \/ /\ IsNone(questions[i].user_answer)
           /\ IsNone(questions[i].score)
           /\ IsNone(questions[i].feedback)
        \/ /\ ~IsNone(questions[i].user_answer)
           /\ ~IsNone(questions[i].score)
           /\ ~IsNone(questions[i].feedback)

\* an audio answer has been transcribed and scored while another question of the
\* table is still unanswered
C4_Witness ==
    /\ resp.op = "submit_audio" /\ resp.status = 200 /\ ~resp.error
    /\ ~IsNone(questions[resp.id].user_answer)
    /\ ~IsNone(questions[resp.id].feedback)
    /\ \E j \in 1..Len(questions) : IsNone(questions[j].user_answer)

\* C5: in every reachable state a session has completed_at set if and only if its
\* status is completed.
C5_CompletedIffStamped ==
    \A sid \in 1..Len(sessions) :
        ~IsNone(sessions[sid].completed_at) <=> sessions[sid].status = "completed"

\* a session completed by the deadline check of a question handler
C5_Witness ==
    /\ resp.op = "submit_audio" /\ resp.status = 410
    /\ sessions[questions[resp.arg].session_id].status = "completed"
    /\ ~IsNone(sessions[questions[resp.arg].session_id].completed_at)

(***************************************************************************)
(* Properties of generation and evaluation, checked under GenSpec and      *)
(* EvalSpec.                                                               *)
(***************************************************************************)
\* C6: every score returned by submit_answer, and every score it persists, lies
\* in [0, 10] whatever the generation call returned.
C6_ScoreWithinScale ==
    /\ \A i \in 1..Len(questions) :
           ~IsNone(questions[i].score) =>
               \/ Val(questions[i].score) \in 0..9999
               \/ Val(questions[i].score) = 10000 /\ questions[i].score_rest = ""
    /\ ~IsNone(resp.score) =>
           \/ Val(resp.score) \in 0..9999
           \/ Val(resp.score) = 10000 /\ resp.score_rest = ""

\* the generation call returned "Score: 85" and 85.0 was returned and persisted
C6_Witness ==
    /\ resp.op = "submit_answer" /\ resp.status = 200
    /\ resp.score = Some(85000)
    /\ questions[resp.id].score = Some(85000)

\* the score of the result is exactly this number of thousandths
ScoreIs(result, thousandths) == result.score = thousandths /\ result.score_rest = ""

ReasonWords == {"gibberish", "Gibberish", "non-answer", "Non-answer", "empty", "Empty"}

\* C7: an evaluation result whose score is 0 or 1.0 has a feedback that names
\* the reason (gibberish, non-answer or empty answer); in particular its
\* feedback is not empty.
C7_LowScoreNamesReason ==
    (ev.phase = "done" /\ (ScoreIs(ev.result, 0) \/ ScoreIs(ev.result, 1000))) =>
        /\ ev.result.feedback # ""
        /\ \E w \in ReasonWords : Contains(ev.result.feedback, w)

\* the generation call returned "Score: 1" only: score 1.0 with an empty feedback
C7_Witness ==
    /\ ev.phase = "done"
    /\ ev.outcome = Text("Score: 1")
    /\ ev.result.score = 1000
    /\ ev.result.feedback = ""

\* generation outputs in which the parser finds neither a score nor a feedback
UnscoredOutcomes ==
    {Text(""), Text("Great answer overall."), Text("Score: n/a"),
     Text("Improvement_Suggestions: study\n2. practice more")}

\* C8: when the generation output yields no score and no feedback, an answer
\* with fewer than 5 characters, or whose real words (runs of 3 or more letters)
\* are fewer than 0.3 of its whitespace-separated tokens, is scored 1.0 with a
\* feedback containing "gibberish"; in particular "asdkj qpx 991" is.
C8_GibberishScoredOne ==
    (ev.phase = "done" /\ ev.outcome \in UnscoredOutcomes) =>
        LET tokens == Max(1, Len(SplitWords(ev.answer)))
            flagged == \/ 10 * CountRealWords(ev.answer) < 3 * tokens
                       \/ Len(Strip(ev.answer)) < 5
                       \/ ev.answer = "asdkj qpx 991"
        IN  flagged => /\ ScoreIs(ev.result, 1000)
                       /\ Contains(ev.result.feedback, "gibberish")

\* "asdkj qpx 991" was evaluated against an output without score or feedback and
\* got the length heuristic's 4.0
C8_Witness ==
    /\ ev.phase = "done"
    /\ ev.outcome = Text("")
    /\ ev.answer = "asdkj qpx 991"
    /\ ev.result.score = 4000
    /\ ~Contains(ev.result.feedback, "gibberish")

BiasVarianceQuestion == "Explain bias-variance tradeoff and how to handle it."

GenericQuestion ==
    "Tell me about your experience and approach to solving problems in this field."

OtherSpelling(domain) ==
    CASE domain = "Data Science" -> "data_science"
      [] domain = "data_science" -> "Data Science"
      [] OTHER -> domain

\* C9: when the generation call fails (either failure sentinel), a next_question
\* request that mints a question persists and returns the table's text for the
\* session's domain and difficulty: the bias-variance question for Data Science
\* at medium, the same text for the slug and the label of a domain, and the
\* generic prompt for an unknown domain or an unknown difficulty.
C9_FallbackQuestionText ==
    \A c \in Contexts, o \in {Failure("connect_error"), Failure("error")} :
        sessions # << >> =>
            LET s == sessions[1]
                r == GetNextQuestion(sessions, questions, now, 1, c, o)
                twin == GetNextQuestion([sessions EXCEPT ![1].domain = OtherSpelling(@)],
                                        questions, now, 1, c, o)
                known == s.domain # "Cooking" /\ s.difficulty # "expert"
            IN  Len(r.questions) = Len(questions) + 1 =>
                    /\ r.resp.status = 200
                    /\ r.resp.id = Len(r.questions)
                    /\ r.questions[r.resp.id].question_text = r.resp.text
                    /\ twin.resp.text = r.resp.text
                    /\ (s.domain \in {"Data Science", "data_science"}
                        /\ s.difficulty = "medium") => r.resp.text = BiasVarianceQuestion
                    /\ known <=> r.resp.text # GenericQuestion

\* a Data Science session at medium got the bias-variance question persisted
C9_Witness ==
    /\ resp.op = "next_question" /\ resp.status = 200
    /\ sessions[1].domain = "Data Science" /\ sessions[1].difficulty = "medium"
    /\ resp.text = BiasVarianceQuestion
    /\ questions[resp.id].question_text = BiasVarianceQuestion

\* C10: whatever the outcome of the generation call (structured, unstructured or
\* empty text, a connection failure, any other exception), next_question on a
\* session before its deadline answers 200 with a non-empty question text, and
\* submit_answer on a question of such a session answers 200 with an evaluation
\* that is also persisted.
C10_GenerationFailureAbsorbed ==
    /\ (sessions # << >> /\ now <= Deadline(sessions[1])) =>
           \A c \in Contexts, o \in QuestionOutcomes :
               LET r == GetNextQuestion(sessions, questions, now, 1, c, o) IN
               /\ r.resp.status = 200
               /\ r.resp.text # ""
               /\ r.questions[r.resp.id].question_text # ""
    /\ (questions # << >> /\ now <= Deadline(sessions[1])) =>
           \A o \in EvaluationOutcomes, waited \in Waits :
               LET r == SubmitAnswerResult(sessions, questions, now, 1,
                                           "asdkj qpx 991", o, waited)
               IN  /\ r.resp.status = 200
                   /\ ~IsNone(r.resp.score) /\ ~IsNone(r.resp.feedback)
                   /\ r.resp.suggestions # << >>
                   /\ r.questions[1].score = r.resp.score
                   /\ r.questions[1].score_rest = r.resp.score_rest
                   /\ r.questions[1].feedback = r.resp.feedback

\* a question obtained from the fallback table has been answered and scored by the
\* fallback evaluation (2.0 for an answer of three words)
C10_Witness ==
    /\ resp.op = "submit_answer" /\ resp.status = 200
    /\ questions[1].question_text = GenericQuestion
    /\ resp.score = Some(2000)
    /\ questions[1].score = Some(2000)

(***************************************************************************)
(* Properties of completion and of unknown ids, checked under Spec and     *)
(* AudioSpec.                                                              *)
(***************************************************************************)
\* session s is completed at time t with the mean score of its scored questions
\* in qs, rounded to hundredths (no score when none is scored)
CompletedWithMean(s, qs, sid, t) ==
    LET scored == {i \in 1..Len(qs) : qs[i].session_id = sid /\ ~IsNone(qs[i].score)}
        n == Cardinality(scored)
        total == SumScores(qs, scored)
    IN  /\ s.status = "completed"
        /\ s.completed_at = Some(t)
        /\ IF n = 0 THEN IsNone(s.score)
           ELSE /\ ~IsNone(s.score)
                /\ Val(s.score) % 10 = 0
                /\ n * Val(s.score) - total \in (-5 * n)..(5 * n)

\* the completion procedure run by a request that is served with no other request
\* in between, by complete_session or by a request refused as expired on a
\* session not yet completed, leaves the session completed, stamped, and scored
\* with the rounded mean of the scores of its questions
UninterruptedCompletion ==
    \A sid \in 1..Len(sessions), t \in now..(MaxTime + 1) :
        /\ CompletedWithMean(CompleteSessionResult(sessions, questions, t, sid).sessions[sid],
                             questions, sid, t)
        /\ sessions[sid].status # "completed" =>
               /\ \A c \in Contexts :
                      LET r == GetNextQuestion(sessions, questions, t, sid, c,
                                               Failure("error"))
                      IN  r.resp.status = 410 =>
                              CompletedWithMean(r.sessions[sid], questions, sid, t)
               /\ \A qid \in 1..Len(questions), a \in AnswerTexts, waited \in Waits :
                      LET r == SubmitAnswerResult(sessions, questions, t, qid, a,
                                                  FlowEvaluation(qid), waited)
                      IN  (questions[qid].session_id = sid /\ r.resp.status = 410) =>
                              CompletedWithMean(r.sessions[sid], questions, sid, t)
        /\ sessions[sid].status # "completed" =>
               \A qid \in 1..Len(questions), tr \in Transcriptions,
                  heard \in Waits, waited \in Waits :
                   LET r == SubmitAudioAnswerResult(sessions, questions, t, qid, tr,
                                                    FlowEvaluation(qid), heard, waited)
                   IN  (questions[qid].session_id = sid /\ r.resp.status = 410) =>
                           CompletedWithMean(r.sessions[sid], questions, sid,
                                             IF t > Deadline(sessions[sid]) THEN t
                                             ELSE t + heard)

\* C14: after the completion procedure has run on a session, by complete_session
\* or by the expiry path of a request, whatever other requests were served while
\* the request waited, the session is completed, has the time of the run as its
\* completion timestamp, and its score is the mean of the non-null scores of its
\* questions rounded to two decimals, or null when no question has a score.  The
\* procedure is the only writer of a session row after its creation.
C14_CompletionAggregates ==
    [][\A sid \in 1..Len(sessions) :
           sessions'[sid] # sessions[sid] =>
               CompletedWithMean(sessions'[sid], questions', sid, now)]_vars

\* the expiry path of an audio request that waited for its transcription has
\* completed the session with a score that is not the mean of the scores of its
\* questions: no answer was stored after the completion, and the score is the
\* one the question had when the request read it
C14_Witness ==
    /\ resp.op = "submit_audio" /\ resp.status = 410
    /\ Len(sessions) = 1
    /\ sessions[1].status = "completed"
    /\ sessions[1].completed_at = Some(now)
    /\ \A i \in 1..Len(questions) :
           IsNone(questions[i].answered_at) \/ Val(questions[i].answered_at) < now
    /\ \A r \in 1..MaxRequests : inflight[r].pc # "evaluating"
    /\ ~IsNone(sessions[1].score)
    /\ ~CompletedWithMean(sessions[1], questions, 1, now)

\* C15: next_question and complete_session with an unknown session id, and
\* submit_answer with an unknown question id, answer 404 Not Found and leave the
\* two tables as they were.
C15_UnknownIdNotFound ==
    /\ \A sid \in 0..(MaxSessions + 1), c \in Contexts :
           sid \notin 1..Len(sessions) =>
               LET r == GetNextQuestion(sessions, questions, now, sid, c, Failure("error"))
               IN  r.resp.status = 404 /\ r.sessions = sessions /\ r.questions = questions
    /\ \A qid \in 0..(MaxQuestions + 1), a \in AnswerTexts, o \in FlowEvaluations,
          waited \in Waits :
           qid \notin 1..Len(questions) =>
               LET r == SubmitAnswerResult(sessions, questions, now, qid, a, o, waited)
               IN  r.resp.status = 404 /\ r.sessions = sessions /\ r.questions = questions
    /\ \A sid \in 0..(MaxSessions + 1) :
           sid \notin 1..Len(sessions) =>
               LET r == CompleteSessionResult(sessions, questions, now, sid)
               IN  r.resp.status = 404 /\ r.sessions = sessions /\ r.questions = questions

\* complete_session was called with the id of no session
C15_Witness ==
    /\ resp.op = "complete_session"
    /\ resp.arg \notin 1..Len(sessions)
    /\ resp.status = 500

\* contexts that are not empty and do not contain the marker of an explicit
\* request for the next question
RefreshContexts ==
    {Some("Answered question 1"), Some("moving to next question"), Some(" x ")}

\* C20: on a session that has not expired, a next_question request whose context
\* is not empty and lacks "Moving to next question" returns the unanswered
\* question of the session with the lowest id, as it is stored, and writes
\* nothing; it creates a question only when the session has no unanswered one.
C20_RefreshReturnsUnanswered ==
    \A sid \in 1..Len(sessions), c \in RefreshContexts :
        now <= Deadline(sessions[sid]) =>
            LET r == GetNextQuestion(sessions, questions, now, sid, c, Failure("error"))
                unanswered == {i \in 1..Len(questions) :
                                  /\ questions[i].session_id = sid
                                  /\ IsNone(questions[i].user_answer)}
            IN  /\ r.resp.status = 200
                /\ r.sessions = sessions
                /\ IF unanswered # {}
                   THEN /\ r.questions = questions
                        /\ r.resp.id \in unanswered
                        /\ \A i \in unanswered : r.resp.id <= i
                        /\ r.resp.text = questions[r.resp.id].question_text
                   ELSE /\ Len(r.questions) = Len(questions) + 1
                        /\ r.resp.id = Len(questions) + 1
                        /\ SubSeq(r.questions, 1, Len(questions)) = questions
                        /\ r.questions[r.resp.id].session_id = sid

\* a refresh has returned the second question while the first one is answered
C20_Witness ==
    /\ resp.op = "next_question" /\ resp.status = 200
    /\ resp.context = Some("Answered question 1")
    /\ resp.id = 2
    /\ Len(questions) = 2
    /\ ~IsNone(questions[1].user_answer)
    /\ IsNone(questions[2].user_answer)

\* C21: on a session that has not expired and has a question, a next_question
\* request with an empty context returns the question of the session with the
\* lowest id, answered or not, and leaves both tables as they were.
C21_EmptyContextReturnsFirst ==
    \A sid \in 1..Len(sessions), c \in EmptyContexts,
       o \in {Failure("error"), Text("How do you detect overfitting?")} :
        LET own == {i \in 1..Len(questions) : questions[i].session_id = sid}
            r == GetNextQuestion(sessions, questions, now, sid, c, o)
        IN  (now <= Deadline(sessions[sid]) /\ own # {}) =>
                /\ r.resp.status = 200
                /\ r.resp.id \in own
                /\ \A i \in own : r.resp.id <= i
                /\ r.resp.text = questions[r.resp.id].question_text
                /\ r.sessions = sessions
                /\ r.questions = questions

\* a whitespace-only context has returned the first question, still unanswered,
\* of a session that has a second one
C21_Witness ==
    /\ resp.op = "next_question" /\ resp.status = 200
    /\ resp.context = Some("  ")
    /\ resp.id = 1
    /\ Len(QuestionIds(questions, resp.arg)) = 2
    /\ IsNone(questions[1].user_answer)

(***************************************************************************)
(* Properties of retrieval, checked under RagSpec.                         *)
(***************************************************************************)
\* the number of distinct lowercase query tokens that occur in the lowercased body
KeywordOverlap(query, body) ==
    LET tokens == SplitWords(Lower(query))
    IN  Cardinality({w \in {tokens[i] : i \in 1..Len(tokens)} : Contains(Lower(body), w)})

\* C11 as stated: a query on a known domain returns at most limit items, which are
\* section bodies ordered by descending keyword-overlap count, ties in document
\* order.
C11_AtMostLimitByOverlap ==
    (rag.phase = "done" /\ rag.domain \in DOMAIN KnowledgeBase(rag.content)) =>
        LET sections == KnowledgeBase(rag.content)[rag.domain]
            overlap(i) == KeywordOverlap(rag.query, sections[i].content)
        IN  /\ Len(rag.result) <= rag.n_results
            /\ \E pos \in [1..Len(rag.result) -> 1..Len(sections)] :
                   /\ \A i \in 1..Len(rag.result) : rag.result[i] = sections[pos[i]].content
                   /\ \A i, j \in 1..Len(rag.result) :
                          i < j => \/ overlap(pos[i]) > overlap(pos[j])
                                   \/ /\ overlap(pos[i]) = overlap(pos[j])
                                      /\ pos[i] < pos[j]

\* the number of query tokens, repeated ones counted each time, that occur in the
\* lowercased body
TokenHits(query, body) ==
    LET tokens == SplitWords(Lower(query))
    IN  Cardinality({i \in 1..Len(tokens) : Contains(Lower(body), tokens[i])})

\* C11: on a known domain a query that contains "topics" returns the headings of
\* all sections in document order; any other query returns the bodies of the
\* min(limit, number of matching sections) sections that rank first by descending
\* count of matching query tokens, ties in document order.
C11_GenericOrRanked ==
    (rag.phase = "done" /\ rag.domain \in DOMAIN KnowledgeBase(rag.content)) =>
        LET sections == KnowledgeBase(rag.content)[rag.domain]
            hits(i) == TokenHits(rag.query, sections[i].content)
            before(i, j) == hits(i) > hits(j) \/ (hits(i) = hits(j) /\ i < j)
            matching == {i \in 1..Len(sections) : hits(i) > 0}
        IN  IF Contains(Lower(rag.query), "topics")
            THEN /\ Len(rag.result) = Len(sections)
                 /\ \A i \in 1..Len(sections) : rag.result[i] = sections[i].section
            ELSE /\ Len(rag.result) = Min(rag.n_results, Cardinality(matching))
                 /\ \E pos \in [1..Len(rag.result) -> matching] :
                        /\ \A i \in 1..Len(rag.result) :
                               rag.result[i] = sections[pos[i]].content
                        /\ \A i, j \in 1..Len(rag.result) : i < j => before(pos[i], pos[j])
                        /\ \A i \in 1..Len(rag.result) :
                               \A k \in matching \ {pos[j] : j \in 1..Len(rag.result)} :
                                   before(pos[i], k)

\* a ranked query whose best section is not the first of the document, and a
\* limit that cuts the list
C11_Witness ==
    /\ rag.phase = "done"
    /\ rag.query = "Robot arm control"
    /\ rag.domain = "robotics"
    /\ rag.n_results = 2
    /\ Len(rag.result) = 2
    /\ Len(KnowledgeBase(rag.content)["robotics"]) = 4
    /\ rag.result[1] # KnowledgeBase(rag.content)["robotics"][1].content
    /\ TokenHits(rag.query, rag.result[1]) > TokenHits(rag.query, rag.result[2])

(***************************************************************************)
(* Properties of concurrent requests, checked under ConcSpec.              *)
(***************************************************************************)
\* request r was an empty-context next_question that saw no question of its
\* session and has been answered with a question
MintedFirst(r) ==
    /\ inflight[r].pc = "done"
    /\ inflight[r].status = 200
    /\ inflight[r].context \in EmptyContexts
    /\ inflight[r].observed = 0

\* C12: two concurrent empty-context next_question requests that both saw zero
\* questions of their session both saved a question: they were answered with
\* different question ids and the session has both questions.
C12_BothMintFirstQuestion ==
    \A r1, r2 \in 1..MaxRequests :
        (r1 # r2 /\ MintedFirst(r1) /\ MintedFirst(r2)
         /\ inflight[r1].sid = inflight[r2].sid) =>
            /\ inflight[r1].id # inflight[r2].id
            /\ {inflight[r1].id, inflight[r2].id} \subseteq
                   {i \in 1..Len(questions) : questions[i].session_id = inflight[r1].sid}

\* both requests saw an empty session and the session ended with two questions
C12_Witness ==
    /\ MintedFirst(1) /\ MintedFirst(2)
    /\ inflight[1].sid = 1 /\ inflight[2].sid = 1
    /\ Len(QuestionIds(questions, 1)) = 2
    /\ inflight[1].id # inflight[2].id

(***************************************************************************)
(* Properties of audio answers, checked under AudioSpec.                   *)
(***************************************************************************)
\* C13: an audio answer whose transcription is a failure string of the
\* speech-to-text service, or shorter than 10 characters, gets a score-0 result
\* and leaves the question row as it was; no failure string is ever stored as
\* a user answer.
C13_FailedTranscriptionNotStored ==
    /\ \A qid \in 1..Len(questions), t \in SpeechResults, o \in FlowEvaluations,
          heard \in Waits, waited \in Waits :
           (/\ now <= Deadline(sessions[questions[qid].session_id])
            /\ (Val(t) \in SpeechFailures \/ Len(Val(t)) < 10)) =>
               LET r == SubmitAudioAnswerResult(sessions, questions, now, qid, t, o,
                                                heard, waited)
               IN  /\ r.resp.status = 200
                   /\ r.resp.score = Some(0)
                   /\ r.questions = questions
    /\ \A qid \in 1..Len(questions) :
           questions[qid].user_answer \notin {Some(f) : f \in SpeechFailures}

\* a failure string of the service was evaluated and stored as the answer
C13_Witness ==
    /\ resp.op = "submit_audio" /\ resp.status = 200 /\ ~resp.error
    /\ questions[1].user_answer =
           Some("No speech detected. Please speak clearly and try again.")
    /\ ~IsNone(questions[1].score)

(***************************************************************************)
(* Properties of repeated answers, checked under GenSpec.                  *)
(***************************************************************************)
\* C22: a question is written at most once: once it has a user_answer, no later
\* request changes its user_answer, score, feedback or answered_at.
C22_AnsweredQuestionFrozen ==
    [][\A qid \in 1..Len(questions) :
           ~IsNone(questions[qid].user_answer) => questions'[qid] = questions[qid]]_vars

\* a second submit_answer on an answered question was accepted and has stored
\* its own score
C22_Witness ==
    /\ resp.op = "submit_answer" /\ resp.status = 200
    /\ resp.after = "answered_before"
    /\ questions[resp.arg].score = resp.score
    /\ questions[resp.arg].score = Some(85000)

(***************************************************************************)
(* Properties of new questions, checked under GenSpec.                     *)
(***************************************************************************)
\* C16: a question that next_question creates on a session that has not expired
\* gets an id that no existing question has, belongs to the requesting session,
\* and is returned with user_answer, score, feedback and answered_at all null.
C16_MintedQuestionFresh ==
    \A sid \in 1..Len(sessions), c \in Contexts, o \in QuestionOutcomes :
        LET r == GetNextQuestion(sessions, questions, now, sid, c, o) IN
        (now <= Deadline(sessions[sid]) /\ r.questions # questions) =>
            /\ r.resp.status = 200
            /\ r.resp.id \in 1..Len(r.questions)
            /\ r.resp.id \notin 1..Len(questions)
            /\ r.questions[r.resp.id].session_id = sid
            /\ IsNone(r.questions[r.resp.id].user_answer)
            /\ IsNone(r.questions[r.resp.id].score)
            /\ IsNone(r.questions[r.resp.id].feedback)
            /\ IsNone(r.questions[r.resp.id].answered_at)
            /\ \A i \in 1..Len(questions) : r.questions[i] = questions[i]

\* next_question has just created the first question of an active session
\* before its deadline
C16_Witness ==
    /\ resp.op = "next_question" /\ resp.status = 200
    /\ resp.id = Len(questions)
    /\ sessions[resp.arg].status = "active"
    /\ now < Deadline(sessions[resp.arg])
    /\ questions[resp.id].session_id = resp.arg
    /\ IsNone(questions[resp.id].user_answer)

\* C17: start_session(domain, difficulty, duration) adds one session that has the
\* requested domain and difficulty, status active, no score and no completion
\* timestamp, answers with its id, and adds no question.
C17_NewSessionActive ==
    \A d \in Domains, f \in Difficulties, m \in {0, 1, 45} :
        LET r == CreateInterviewSession(sessions, questions, now, d, f, m)
            id == r.resp.id
        IN  /\ r.resp.status = 200
            /\ Len(r.sessions) = Len(sessions) + 1
            /\ id = Len(r.sessions)
            /\ r.sessions[id].domain = d
            /\ r.sessions[id].difficulty = f
            /\ r.sessions[id].duration_minutes = m
            /\ r.sessions[id].status = "active"
            /\ IsNone(r.sessions[id].score)
            /\ IsNone(r.sessions[id].completed_at)
            /\ \A i \in 1..Len(sessions) : r.sessions[i] = sessions[i]
            /\ r.questions = questions

\* start_session has just created a session with a difficulty that is not the
\* default
C17_Witness ==
    /\ resp.op = "start_session" /\ resp.status = 200
    /\ sessions[resp.id].domain = "Robotics"
    /\ sessions[resp.id].difficulty = "hard"
    /\ sessions[resp.id].status = "active"
    /\ IsNone(sessions[resp.id].score) /\ IsNone(sessions[resp.id].completed_at)
    /\ questions = << >>

(***************************************************************************)
(* Properties of the fallback evaluation, checked under FallbackSpec.      *)
(***************************************************************************)
NonAnswerPhrases == {"i don't know", "no idea", "not sure"}

NonAnswer(answer) == \E p \in NonAnswerPhrases : Contains(Lower(answer), p)

\* the number of maximal runs of non-whitespace characters
WordCount(s) ==
    Cardinality({i \in 1..Len(s) :
                    ~IsSpace(CharAt(s, i)) /\ (i = 1 \/ IsSpace(CharAt(s, i - 1)))})

NoKeyword(answer, domain) ==
    \A k \in 1..Len(GetDomainKeywords(domain)) :
        ~Contains(Lower(answer), Lower(GetDomainKeywords(domain)[k]))

\* the generation call failed and the fallback evaluation has answered
FellBack == ev.phase = "done" /\ ev.outcome.kind # "text"

\* C18: the fallback evaluation gives score 0.5, with feedback that encourages
\* the candidate to reason, to every answer that contains one of the non-answer
\* phrases, whatever its case.
C18_NonAnswerScoredHalf ==
    (FellBack /\ NonAnswer(ev.answer)) =>
        /\ ScoreIs(ev.result, 500)
        /\ Contains(ev.result.feedback, "reason")

\* the fallback evaluation has scored "I don't know" by its length
C18_Witness ==
    /\ FellBack
    /\ ev.answer = "I don't know"
    /\ ev.result.score = 2000
    /\ StartsWith(ev.result.feedback, "Your answer is too brief.")

\* C19 as stated: without a non-answer phrase and without a domain keyword, the
\* fallback score follows the bands n<3 -> 1.0, n<8 -> 2.5, n<20 -> 4.0,
\* n<50 -> 6.0, n<100 -> 7.5, else 8.0 of the word count n.
C19_StatedBands ==
    (FellBack /\ ~NonAnswer(ev.answer) /\ NoKeyword(ev.answer, ev.domain)) =>
        LET n == WordCount(ev.answer) IN
        ScoreIs(ev.result, IF n < 3 THEN 1000 ELSE IF n < 8 THEN 2500
                           ELSE IF n < 20 THEN 4000 ELSE IF n < 50 THEN 6000
                           ELSE IF n < 100 THEN 7500 ELSE 8000)

\* C19: without a non-answer phrase and without a domain keyword, the fallback
\* score follows the bands n<5 -> 2.0, n<15 -> 4.0, n<40 -> 6.5, n<80 -> 7.5,
\* else 8.0 of the word count n.
C19_WordCountBands ==
    (FellBack /\ ~NonAnswer(ev.answer) /\ NoKeyword(ev.answer, ev.domain)) =>
        LET n == WordCount(ev.answer) IN
        ScoreIs(ev.result, IF n < 5 THEN 2000 ELSE IF n < 15 THEN 4000
                           ELSE IF n < 40 THEN 6500 ELSE IF n < 80 THEN 7500
                           ELSE 8000)

\* an answer of exactly 80 words without a keyword got the top band
C19_Witness ==
    /\ FellBack
    /\ WordCount(ev.answer) = 80
    /\ NoKeyword(ev.answer, ev.domain)
    /\ ev.result.score = 8000

\* the band score of _get_fallback_evaluation for an answer of n words
BandScore(n) ==
    IF n < 5 THEN 2000 ELSE IF n < 15 THEN 4000 ELSE IF n < 40 THEN 6500
    ELSE IF n < 80 THEN 7500 ELSE 8000

\* the keywords of the domain that occur in the answer, case ignored
KeywordsFound(answer, domain) ==
    {k \in {GetDomainKeywords(domain)[i] : i \in 1..Len(GetDomainKeywords(domain))} :
        Contains(Lower(answer), Lower(k))}

\* C23: with m the number of domain keywords that occur in the answer, the
\* fallback score is min(9.5, band + min(1.5, 0.3 * m)) when m > 0 and the band
\* score when m = 0 or the domain has no keyword list; it is never above 9.5 and
\* never below the band score.
C23_KeywordBoost ==
    FellBack =>
        LET band == BandScore(WordCount(ev.answer))
            m == Cardinality(KeywordsFound(ev.answer, ev.domain))
            boost == IF 300 * m < 1500 THEN 300 * m ELSE 1500
        IN  /\ ScoreIs(ev.result,
                       IF m > 0 THEN (IF band + boost < 9500 THEN band + boost ELSE 9500)
                       ELSE band)
            /\ ev.domain \notin DOMAIN keywords_map => ScoreIs(ev.result, band)
            /\ ev.result.score <= 9500
            /\ ev.result.score >= band

\* an answer of the top band with more than five keywords got the full boost
C23_Witness ==
    /\ FellBack
    /\ Cardinality(KeywordsFound(ev.answer, ev.domain)) > 5
    /\ WordCount(ev.answer) >= 80
    /\ ev.result.score = 9500

(***************************************************************************)
(* Properties of the parsed evaluation, checked under EvalSpec.            *)
(***************************************************************************)
\* the feedback texts of the gibberish rule and of the length heuristic
RuleFeedbacks ==
    {GibberishFeedback} \cup {LengthHeuristic(n, "").feedback : n \in {0, 15, 101}}

\* the results of the audio route for a question of an active session
AudioResults ==
    {SubmitAudioAnswerResult(<<NewSession("Data Science", "medium", 45, 0)>>,
                             <<NewQuestion(1, "What is overfitting?")>>, 0, 1, t, o,
                             heard, waited).resp :
        t \in SpeechResults, o \in FlowEvaluations, heard \in Waits, waited \in Waits}

\* C24: every evaluation result has at least one suggestion, whichever path made
\* it (parsed output, gibberish rule, length heuristic, fallback evaluation, audio
\* rejection); a result taken from the parsed output of a response without an
\* Improvement_Suggestions field has the suggestions of the domain, or the three
\* generic ones when the domain has none.
C24_SuggestionsNeverEmpty ==
    /\ ev.phase = "done" =>
           /\ ev.result.suggestions # << >>
           /\ (/\ ev.outcome.kind = "text"
               /\ ev.outcome.text \notin {OllamaUnavailable, OllamaError}
               /\ ~Contains(ev.outcome.text, "Improvement_Suggestions:")
               /\ ev.result.feedback \notin RuleFeedbacks) =>
                  ev.result.suggestions =
                      IF ev.domain \in DOMAIN suggestions_map
                      THEN suggestions_map[ev.domain]
                      ELSE generic_suggestions
    /\ Len(generic_suggestions) = 3
    /\ \A r \in AudioResults : r.status = 200 /\ r.suggestions # << >>

\* a parsed score without any suggestion line, for a domain without a bank
C24_Witness ==
    /\ ev.phase = "done"
    /\ ev.outcome = Text("Score: 1.0\nContent_Quality: weak")
    /\ ev.domain = "Cooking"
    /\ ev.result.score = 1000
    /\ ev.result.suggestions = generic_suggestions

(***************************************************************************)
(* Properties of the stored answer, checked under GenSpec.                 *)
(***************************************************************************)
\* GET /sessions/{session_id}/questions: the rows of the session, by id
GetSessionQuestions(qs, sid) ==
    LET ids == QuestionIds(qs, sid)
    IN  [k \in 1..Len(ids) |-> [id |-> ids[k]] @@ qs[ids[k]]]

\* the columns written by an accepted answer, without the suggestions
StoredAnswerMatchesReply(row, reply, answer_text, t) ==
    /\ row.user_answer = Some(answer_text)
    /\ row.score = reply.score
    /\ row.score_rest = reply.score_rest
    /\ row.feedback = reply.feedback
    /\ row.answered_at = Some(t)

\* C25: after an accepted submit_answer the stored question holds the submitted
\* text and the score, feedback, suggestions and answered timestamp of the
\* evaluation returned to the caller, so that a later read of the question gives
\* the same score, feedback and suggestions.
C25_StoredEvaluation ==
    \A qid \in 1..Len(questions), a \in SubmittedTexts, o \in EvaluationOutcomes,
       waited \in Waits :
        LET r == SubmitAnswerResult(sessions, questions, now, qid, a, o, waited)
            read == GetSessionQuestions(r.questions, r.questions[qid].session_id)
        IN  r.resp.status = 200 =>
                /\ StoredAnswerMatchesReply(r.questions[qid], r.resp, a, now + waited)
                /\ \E k \in 1..Len(read) :
                       /\ read[k].id = qid
                       /\ read[k].score = r.resp.score
                       /\ read[k].score_rest = r.resp.score_rest
                       /\ read[k].feedback = r.resp.feedback
                       /\ "suggestions" \in DOMAIN read[k]
                       /\ read[k].suggestions = r.resp.suggestions

\* the part of C25 that the handler does: the four columns, in one commit
C25_ColumnsStored ==
    \A qid \in 1..Len(questions), a \in SubmittedTexts, o \in EvaluationOutcomes,
       waited \in Waits :
        LET r == SubmitAnswerResult(sessions, questions, now, qid, a, o, waited)
        IN  r.resp.status = 200 =>
                /\ StoredAnswerMatchesReply(r.questions[qid], r.resp, a, now + waited)
                /\ r.sessions = sessions
                /\ \A j \in 1..Len(questions) : j # qid => r.questions[j] = questions[j]

\* an answer was accepted with suggestions in the reply, and the stored row has
\* the score and the feedback of the reply and no column for the suggestions
C25_Witness ==
    /\ resp.op = "submit_answer" /\ resp.status = 200
    /\ resp.suggestions = <<"add examples">>
    /\ questions[resp.id].score = resp.score
    /\ questions[resp.id].feedback = resp.feedback
    /\ "suggestions" \notin DOMAIN questions[resp.id]

(***************************************************************************)
(* Properties of expired sessions, checked under Spec.                     *)
(***************************************************************************)
\* the state a request refused as expired leaves session sid in: completed, with
\* a deadline that is a date of the calendar and has passed at time t
Lapsed(ss, sid, t) ==
    /\ ss[sid].status = "completed"
    /\ Deadline(ss[sid]) >= -ClockZero
    /\ t > Deadline(ss[sid])

\* the results of the three question requests on session sid at time t
QuestionRequests(ss, qs, sid, t) ==
    {GetNextQuestion(ss, qs, t, sid, c, o) :
        c \in Contexts, o \in {Failure("error"), Text("How do you detect overfitting?")}}
    \cup {SubmitAnswerResult(ss, qs, t, qid, a, FlowEvaluation(qid), waited) :
             qid \in {i \in 1..Len(qs) : qs[i].session_id = sid}, a \in AnswerTexts,
             waited \in Waits}
    \cup {SubmitAudioAnswerResult(ss, qs, t, qid, x, FlowEvaluation(qid), heard, waited) :
             qid \in {i \in 1..Len(qs) : qs[i].session_id = sid}, x \in Transcriptions,
             heard \in Waits, waited \in Waits}

\* C26: under sequential requests and a clock that never goes back, once a
\* next_question, submit_answer or audio submission on a session has returned
\* Expired, every later such request on the session returns Expired, creates and
\* modifies no question, and leaves the status, the score and the completion
\* timestamp of the session as they are.  A refused request leaves the session
\* completed past its deadline; that condition is never lost; and in it the three
\* requests are refused at every later time without any write.
C26_ExpiryPermanent ==
    /\ [](\A sid \in 1..Len(sessions) :
            /\ (/\ resp.status = 410
                /\ \/ resp.op = "next_question" /\ resp.arg = sid
                   \/ /\ resp.op \in {"submit_answer", "submit_audio"}
                      /\ questions[resp.arg].session_id = sid) =>
                   Lapsed(sessions, sid, now)
            /\ Lapsed(sessions, sid, now) =>
                   \A t \in now..(MaxTime + 1) :
                       \A r \in QuestionRequests(sessions, questions, sid, t) :
                           /\ r.resp.status = 410
                           /\ r.questions = questions
                           /\ r.sessions = sessions)
    /\ [][\A sid \in 1..Len(sessions) :
              Lapsed(sessions, sid, now) => Lapsed(sessions', sid, now')]_vars

\* submit_answer was refused on a session that next_question had been refused on
\* just before, and the session has a single completion stamp
C26_Witness ==
    /\ resp.op = "submit_answer" /\ resp.status = 410
    /\ resp.after = "expired_before"
    /\ Lapsed(sessions, questions[resp.arg].session_id, now)
    /\ sessions[questions[resp.arg].session_id].completed_at = Some(now)

(***************************************************************************)
(* Properties of completed sessions before the deadline, checked under     *)
(* Spec.                                                                   *)
(***************************************************************************)
\* C27: the status completed alone does not gate requests: on a session that
\* complete_session completed at or before its deadline, next_question still
\* mints a question and submit_answer still records a score, and neither touches
\* the session; so a completed session can have a score that is not the rounded
\* mean of its scored questions.
C27_CompletedStillServes ==
    \A sid \in 1..Len(sessions) :
        (sessions[sid].status = "completed" /\ now <= Deadline(sessions[sid])) =>
            /\ LET r == GetNextQuestion(sessions, questions, now, sid,
                                        Some("Answered question 1. Moving to next question"),
                                        Failure("error"))
               IN  /\ r.resp.status = 200
                   /\ Len(r.questions) = Len(questions) + 1
                   /\ r.resp.id = Len(questions) + 1
                   /\ r.questions[r.resp.id].session_id = sid
                   /\ r.sessions = sessions
            /\ \A qid \in 1..Len(questions), a \in AnswerTexts, waited \in Waits :
                   questions[qid].session_id = sid =>
                       LET r == SubmitAnswerResult(sessions, questions, now, qid, a,
                                                   FlowEvaluation(qid), waited)
                       IN  /\ r.resp.status = 200
                           /\ ~IsNone(r.resp.score)
                           /\ r.questions[qid].score = r.resp.score
                           /\ r.questions[qid].user_answer = Some(a)
                           /\ r.sessions = sessions

\* an answer was recorded on a session completed before its deadline, whose score
\* is now not the rounded mean of the scores of its two scored questions
C27_Witness ==
    /\ resp.op = "submit_answer" /\ resp.status = 200
    /\ LET sid == questions[resp.id].session_id
           scored == ScoredIds(questions, sid)
           total == SumScores(questions, scored)
       IN  /\ sessions[sid].status = "completed"
           /\ now <= Deadline(sessions[sid])
           /\ ~IsNone(sessions[sid].score)
           /\ Cardinality(scored) = 2
           /\ 2 * Val(sessions[sid].score) - total \notin (-10)..10

(***************************************************************************)
(* Properties of explicit requests for the next question, checked under    *)
(* Spec.                                                                   *)
(***************************************************************************)
\* contexts that contain the marker
MarkerContexts ==
    {Some("Moving to next question"),
     Some("Answered question 1. Moving to next question")}

\* the unanswered questions of a session
Unanswered(qs, sid) ==
    {i \in 1..Len(qs) : qs[i].session_id = sid /\ IsNone(qs[i].user_answer)}

\* C29: on a session that has not expired, a next_question request whose context
\* contains "Moving to next question" always mints a new question, also when the
\* session has unanswered questions; the session then holds more than one
\* unanswered question, and a following request whose context is not empty and
\* lacks the marker returns the oldest unanswered one, not the one just minted.
C29_MarkerAlwaysMints ==
    \A sid \in 1..Len(sessions), c \in MarkerContexts :
        now <= Deadline(sessions[sid]) =>
            LET r == GetNextQuestion(sessions, questions, now, sid, c, Failure("error"))
                before == Unanswered(questions, sid)
                later == GetNextQuestion(r.sessions, r.questions, now, sid,
                                         Some("Answered question 1"), Failure("error"))
            IN  /\ r.resp.status = 200
                /\ Len(r.questions) = Len(questions) + 1
                /\ r.resp.id = Len(questions) + 1
                /\ SubSeq(r.questions, 1, Len(questions)) = questions
                /\ r.questions[r.resp.id].session_id = sid
                /\ Unanswered(r.questions, sid) = before \cup {r.resp.id}
                /\ before # {} =>
                       /\ Cardinality(Unanswered(r.questions, sid)) > 1
                       /\ later.resp.status = 200
                       /\ later.resp.id \in before
                       /\ \A i \in before : later.resp.id <= i
                       /\ later.resp.id # r.resp.id
                       /\ later.questions = r.questions

\* a request with the marker minted question 2 while question 1 was unanswered,
\* and the request after it, without the marker, got question 1
C29_Witness ==
    /\ resp.op = "next_question" /\ resp.status = 200
    /\ resp.context = Some("Answered question 1")
    /\ resp.id = 1
    /\ Unanswered(questions, resp.arg) = {1, 2}

(***************************************************************************)
(* Properties of responses without feedback fields, checked under          *)
(* EvalSpec.                                                               *)
(***************************************************************************)
\* the response has none of the three feedback fields
NoFeedbackField(text) ==
    /\ ~Contains(text, "Relevance_Check:")
    /\ ~Contains(text, "Content_Quality:")
    /\ ~Contains(text, "Missing_Elements:")

\* the score written in the responses that have a Score line and no feedback
\* field: its thousandths and the digits after them (0 where the line has no
\* number)
WrittenScore ==
    ("Score: 0" :> <<0, "">>) @@ ("Score: n/a" :> <<0, "">>)
        @@ ("Score: 1" :> <<1000, "">>) @@ ("Score: 85" :> <<85000, "">>)
        @@ ("Score: 0.0004" :> <<0, "4">>)

\* C30: the parser cannot tell a written score of 0 without feedback fields from
\* a missing score: when the response has no Relevance_Check, Content_Quality or
\* Missing_Elements field and its score is 0 or absent, the result has score 1.0
\* (gibberish rule) or the length score min(9, max(4, words / 8)), never 0; a
\* written score other than 0 without feedback fields is returned as it is, with
\* empty feedback.
C30_ZeroScoreIsMissingScore ==
    (/\ ev.phase = "done" /\ ev.outcome.kind = "text"
     /\ ev.outcome.text \notin {OllamaUnavailable, OllamaError}
     /\ NoFeedbackField(ev.outcome.text)) =>
        /\ Contains(ev.outcome.text, "Score:") => ev.outcome.text \in DOMAIN WrittenScore
        /\ LET written == IF ev.outcome.text \in DOMAIN WrittenScore
                          THEN WrittenScore[ev.outcome.text] ELSE <<0, "">>
               words == WordCount(ev.answer)
               by_length == IF 125 * words < 4000 THEN 4000
                            ELSE IF 125 * words > 9000 THEN 9000 ELSE 125 * words
           IN  IF written = <<0, "">>
               THEN /\ ~ScoreIs(ev.result, 0)
                    /\ \/ /\ ScoreIs(ev.result, 1000)
                          /\ Contains(ev.result.feedback, "gibberish")
                       \/ /\ ScoreIs(ev.result, by_length)
                          /\ ev.result.score \in 4000..9000
               ELSE /\ ev.result.score = written[1]
                    /\ ev.result.score_rest = written[2]
                    /\ ev.result.feedback = ""

\* a response that says "Score: 0" and nothing else, for an answer of 48 words,
\* was scored 6.0 by length
C30_Witness ==
    /\ ev.phase = "done"
    /\ ev.outcome = Text("Score: 0")
    /\ ev.answer = LongAnswer48
    /\ ev.result.score = 6000

(***************************************************************************)
(* Properties of answers committed late, checked under LateSpec.           *)
(***************************************************************************)
\* C28: submit_answer checks the deadline once, before it waits for the
\* evaluation: a request that passed the check replies 200 and commits whatever
\* the time and the status of the session have become, also after the deadline
\* and after another request has run complete_session, and it leaves the
\* session as it is: completed, with a score that does not count the question
\* just scored.  The commit leaves the question answered and scored; it stores
\* the answer, the score of the reply and the time when the request read the
\* question unanswered or when no other request has changed the row since, and
\* it leaves a column as another request has stored it meanwhile when the value
\* assigned is the value the request had read.
C28_LateCommit ==
    \A r \in 1..MaxRequests :
        inflight[r].pc = "evaluating" =>
            LET qid == inflight[r].question_id
                sid == questions[qid].session_id
                answer_text == inflight[r].answer_text
                question == Val(inflight[r].question)
                f == FinishSubmitAnswer(SubmitAnswerBase(qid), sessions, questions, now,
                                        qid, answer_text, FlowEvaluation(qid), question)
            IN  /\ f.resp.status = 200
                /\ f.sessions = sessions
                /\ \A j \in 1..Len(questions) : j # qid => f.questions[j] = questions[j]
                /\ ~IsNone(f.questions[qid].user_answer)
                /\ ~IsNone(f.questions[qid].score)
                /\ ~IsNone(f.questions[qid].answered_at)
                /\ (IsNone(question.user_answer) \/ questions[qid] = question) =>
                       /\ f.questions[qid].user_answer = Some(answer_text)
                       /\ f.questions[qid].score = f.resp.score
                       /\ f.questions[qid].score_rest = f.resp.score_rest
                       /\ f.questions[qid].feedback = f.resp.feedback
                       /\ f.questions[qid].answered_at = Some(now)
                /\ question.user_answer = Some(answer_text) =>
                       f.questions[qid].user_answer = questions[qid].user_answer
                /\ question.user_answer # Some(answer_text) =>
                       f.questions[qid].user_answer = Some(answer_text)

\* a request that passed the deadline check has committed its answer after the
\* deadline, on a session that another request had completed: the session's score
\* is that of question 1 alone while questions 1 and 2 are scored
C28_Witness ==
    /\ Len(sessions) = 1 /\ Len(questions) = 2
    /\ sessions[1].status = "completed"
    /\ resp.op = "submit_answer" /\ resp.status = 200 /\ resp.id = 2
    /\ questions[2].answered_at = Some(Deadline(sessions[1]) + 1)
    /\ sessions[1].completed_at = Some(Deadline(sessions[1]) + 1)
    /\ questions[1].answered_at = Some(Deadline(sessions[1]))
    /\ sessions[1].score = questions[1].score
    /\ questions[2].score # questions[1].score
    /\ ~IsNone(questions[2].score)

=============================================================================
